---- MODULE Spec2Model ----
(***************************************************************************)
(* Ownership and error-propagation layer of the binding library:          *)
(*   pytypes  (handle / object / error_already_set)                        *)
(*   detail/internals (translate_exception, get_internals, shared data)    *)
(*   embed    (initialize_interpreter / finalize_interpreter)               *)
(*   pytypes  accessor_policies                                             *)
(*   pytypes  python_builtins, constructors of the types, iterator,         *)
(*            dict_readonly                                                 *)
(*   options  (the scoped global settings)                                  *)
(* The host runtime's objects are numbered 1..NumObj, the null pointer is  *)
(* 0.  An object is deallocated when its reference count reaches 0.        *)
(***************************************************************************)
EXTENDS Integers, Naturals, Sequences, FiniteSets, TLC

\* ----------------------------------------------------------------- bounds
NumObj == 2        \* runtime objects
NumRef == 2        \* storage slots for Owning References (`object` values)
MaxOps == 4        \* operations per behaviour
MaxInitCount == 1  \* largest reference count an object starts with
MaxRaises == 2     \* failing runtime calls per behaviour
NumMod == 2        \* independently loaded binary modules (the first one embeds)
MaxRegs == 3       \* `new internals()` allocations per behaviour
MaxRuns == 2       \* Py_InitializeEx calls per behaviour

Null == 0
Obj  == 1..NumObj
Ptr  == Obj \cup {Null}
Ref  == 1..NumRef

VARIABLES
    refcnt,     \* [Obj -> Int]  ob_refcnt of every runtime object
    cnt0,       \* [Obj -> Nat]  the count each object started with
    incs,       \* [Obj -> Nat]  Py_XINCREF calls that hit the object
    decs,       \* [Obj -> Nat]  Py_XDECREF calls that hit the object
    held,       \* [Obj -> Int]  count units owned by the runtime and by raw handles
    m_ptr,      \* [Ref -> Ptr]  handle::m_ptr of every Owning Reference slot
    live,       \* SUBSET Ref    the slots that hold a constructed `object`
    fault,      \* BOOLEAN       a null pointer or a freed object was dereferenced
    last,       \* the operation that produced this state
    before,     \* [Obj -> Int]  refcnt before the last operation
    mid,        \* sequence of refcnt maps: the intermediate steps of the last operation
    nops,       \* operations performed so far
    err,        \* the runtime's error indicator: [type, value, tb], each a Ptr
    err0,       \* the error indicator before the last operation
    nraises,    \* failing runtime calls so far
    thrown,     \* the native fault in flight at the call boundary
    pending,    \* the runtime error category and message pending at the boundary
    internals_pp,  \* [Mod -> cell]  each module's static `internals **` (0 = nullptr)
    internals_ptr, \* [cell -> registry]  the `internals *` every allocated cell holds
    builtins,      \* what the builtin namespace holds under PYBIND11_INTERNALS_ID
    translators,   \* [registry -> Seq]  registered_exception_translators, front first
    reglog,        \* [registry -> Seq]  the same registrations in the order they were made
    born,          \* [registry -> Nat]  the interpreter run that allocated it (0 = never)
    deletes,       \* [registry -> Nat]  how often it was deleted
    allocated,     \* registries allocated so far; the next one is allocated + 1
    run,           \* interpreter runs started so far
    running,       \* Py_IsInitialized()
    finalizing,    \* finalize_interpreter inside Py_Finalize, and its local internals_ptr_ptr
    gil,           \* the thread that holds the global interpreter lock (0 = none)
    pc,            \* [Mod -> position of the module's thread inside get_internals]
    glibcxx,       \* the build defines __GLIBCXX__
    first,         \* [Mod -> how the module's first get_internals call ended]
    shared_data,   \* internals::shared_data of the registry: name -> pointer
    lastset,       \* [Names -> the pointer the latest set_shared_data gave the name]
    items,         \* [Keys -> Ptr]  what the owner object holds under each key / index
    rest,          \* the elements the underlying runtime iterator has not produced yet
    bad,           \* the underlying iterator ends with an error instead of exhaustion
    src0,          \* the elements the underlying iterator started with
    used,          \* the elements the caller has used, in order
    calls,         \* PyIter_Next calls so far
    lpc,           \* position inside `while (it != sentinel()) { use *it; ++it; }`
    global_state,  \* options::global_state(): the two process-wide flags
    scopes,        \* the live `options` values, innermost last: their previous_state
    table,         \* the slots of the mapping's hash table (0 = unused slot)
    dict_it,       \* a dict_readonly: [pos, key, value]
    yielded,       \* the entries the mapping traversal has produced, in order
    guards,        \* [Guard -> the scoped_interpreter value: its lifetime and is_valid]
    finals         \* finalize_interpreter calls so far

refVars == <<refcnt, cnt0, incs, decs, held, m_ptr, live, fault, last, before, mid, nops>>
errVars == <<err, err0, nraises>>
excVars == <<thrown, pending>>
regVars == <<internals_pp, internals_ptr, builtins, translators, reglog, born, deletes,
             allocated, run, running, finalizing, gil, pc, glibcxx, first,
             shared_data, lastset>>
accVars == <<items>>
iterVars == <<rest, bad, src0, used, calls, lpc>>
optVars == <<global_state, scopes>>
dictVars == <<table, dict_it, yielded>>
guardVars == <<guards, finals>>
pyVars == <<iterVars, optVars, dictVars, guardVars>>
vars == <<refVars, errVars, excVars, regVars, accVars, pyVars>>

NoErr == [type |-> Null, value |-> Null, tb |-> Null]
NoPending == [type |-> "none", msg |-> "none"]
\* an exception_ptr: kind "null" is the empty pointer; `held` is the error an
\* error_already_set carries, `cat` the error a builtin_exception stands for
Fault(kind, type, what, heldErr, cat) ==
    [kind |-> kind, type |-> type, what |-> what, held |-> heldErr, cat |-> cat]
NoFault == Fault("none", "none", "none", NoPending, "none")

\* ------------------------------------------------------- handle (no counting)
\* The part of the state the member functions read and write.
Cur == [cnt |-> refcnt, incs |-> incs, decs |-> decs, ptr |-> m_ptr, fault |-> fault,
        err |-> err]

\* Py_INCREF: the variant without the null test (dereferences its argument).
Py_INCREF(s, p) ==
    IF p = Null THEN [s EXCEPT !.fault = TRUE]
    ELSE [s EXCEPT !.cnt[p] = @ + 1, !.incs[p] = @ + 1,
                   !.fault = @ \/ s.cnt[p] <= 0]

\* Py_XINCREF(p): nothing on null, otherwise ++ob_refcnt.  Touching an object
\* whose count is already 0 (deallocated) is a use after free.
Py_XINCREF(s, p) ==
    IF p = Null THEN s
    ELSE [s EXCEPT !.cnt[p] = @ + 1, !.incs[p] = @ + 1,
                   !.fault = @ \/ s.cnt[p] <= 0]

\* Py_XDECREF(p): nothing on null, otherwise --ob_refcnt (deallocation at 0).
Py_XDECREF(s, p) ==
    IF p = Null THEN s
    ELSE [s EXCEPT !.cnt[p] = @ - 1, !.decs[p] = @ + 1,
                   !.fault = @ \/ s.cnt[p] <= 0]

handle_inc_ref(s, p) == Py_XINCREF(s, p)
handle_dec_ref(s, p) == Py_XDECREF(s, p)

\* ------------------------------------------------------- object (counting)
\* object(handle h, borrowed_t) : handle(h) { inc_ref(); }
object_borrowed(s, r, h) == handle_inc_ref([s EXCEPT !.ptr[r] = h], h)

\* object(handle h, stolen_t) : handle(h) { }
object_stolen(s, r, h) == [s EXCEPT !.ptr[r] = h]

\* object(handle h, bool is_borrowed) : handle(h) { if (is_borrowed) inc_ref(); }
object_deprecated(s, r, h, is_borrowed) ==
    LET t == [s EXCEPT !.ptr[r] = h]
    IN  IF is_borrowed THEN handle_inc_ref(t, h) ELSE t

\* a copy constructor that forgets inc_ref()
object_copy_NoIncRef(s, r, o) == [s EXCEPT !.ptr[r] = s.ptr[o]]

\* object(const object &o) : handle(o) { inc_ref(); }
object_copy(s, r, o) == handle_inc_ref([s EXCEPT !.ptr[r] = s.ptr[o]], s.ptr[o])

\* a move constructor that leaves the source pointing at the object
object_move_KeepsSource(s, r, other) == [s EXCEPT !.ptr[r] = s.ptr[other]]

\* object(object &&other) { m_ptr = other.m_ptr; other.m_ptr = nullptr; }
object_move(s, r, other) ==
    LET t == [s EXCEPT !.ptr[r] = s.ptr[other]]
    IN  [t EXCEPT !.ptr[other] = Null]

\* ~object() { dec_ref(); }
object_dtor(s, r) == handle_dec_ref(s, s.ptr[r])

\* a release() that forgets to reset m_ptr
object_release_KeepsPtr(s, r) == [st |-> s, ret |-> s.ptr[r]]

\* handle release(): tmp = m_ptr; m_ptr = nullptr; return handle(tmp);
object_release(s, r) == [st |-> [s EXCEPT !.ptr[r] = Null], ret |-> s.ptr[r]]

\* a copy assignment that decrements the old value before incrementing the new
object_copy_assign_DecFirst(s, a, other) ==
    LET s1 == Py_XDECREF(s, s.ptr[a])
        s2 == Py_XINCREF(s1, s1.ptr[other])
        s3 == [s2 EXCEPT !.ptr[a] = s2.ptr[other]]
    IN  <<s1, s2, s3>>

\* operator=(const object &other): the states after each of its three statements.
object_copy_assign_steps(s, a, other) ==
    LET s1 == handle_inc_ref(s, s.ptr[other])
        s2 == handle_dec_ref(s1, s1.ptr[a])
        s3 == [s2 EXCEPT !.ptr[a] = s2.ptr[other]]
    IN  <<s1, s2, s3>>

object_copy_assign(s, a, other) == object_copy_assign_steps(s, a, other)[3]

\* a move assignment without the self-assignment test
object_move_assign_NoSelfTest(s, a, other) ==
    LET temp == s.ptr[a]
        s1 == [s EXCEPT !.ptr[a] = s.ptr[other]]
        s2 == [s1 EXCEPT !.ptr[other] = Null]
    IN  Py_XDECREF(s2, temp)

\* operator=(object &&other)
object_move_assign(s, a, other) ==
    IF a /= other
    THEN LET temp == s.ptr[a]
             s1 == [s EXCEPT !.ptr[a] = s.ptr[other]]
             s2 == [s1 EXCEPT !.ptr[other] = Null]
         IN  handle_dec_ref(s2, temp)
    ELSE s

\* ------------------------------------------------------- error_already_set
Slots == {"m_type", "m_value", "m_trace"}

\* PyErr_Fetch(&t, &v, &tb): hands the indicator's three references to the
\* caller and clears the indicator; no count changes.
PyErr_Fetch(s) == [st |-> [s EXCEPT !.err = NoErr], out |-> s.err]

\* PyErr_Restore(t, v, tb): the indicator takes over the three references; what
\* it held before is cleared first (each object released once).
PyErr_Restore(s, t, v, tb) ==
    LET old == s.err
        s1  == [s EXCEPT !.err = [type |-> t, value |-> v, tb |-> tb]]
    IN  Py_XDECREF(Py_XDECREF(Py_XDECREF(s1, old.type), old.value), old.tb)

\* detail::error_string(): builds the message of the pending error and leaves the
\* indicator as it found it.
error_string(s) == s

\* a constructor that reads the indicator without clearing it
error_already_set_ctor_NoClear(s) ==
    [s EXCEPT !.ptr = [m_type |-> s.err.type, m_value |-> s.err.value,
                       m_trace |-> s.err.tb]]

\* error_already_set() : std::runtime_error(detail::error_string())
\*     { PyErr_Fetch(&m_type.ptr(), &m_value.ptr(), &m_trace.ptr()); }
error_already_set_ctor(s) ==
    LET s0 == [s EXCEPT !.ptr = [k \in Slots |-> Null]]
        f  == PyErr_Fetch(error_string(s0))
    IN  [f.st EXCEPT !.ptr = [m_type |-> f.out.type, m_value |-> f.out.value,
                              m_trace |-> f.out.tb]]

\* a restore() that passes the pointers on but keeps them in the slots
error_already_set_restore_NoRelease(s) ==
    PyErr_Restore(s, s.ptr["m_type"], s.ptr["m_value"], s.ptr["m_trace"])

\* a restore() that lends the references: inc_ref().ptr() instead of release().ptr()
error_already_set_restore_Borrowing(s) ==
    LET t  == s.ptr["m_type"]
        v  == s.ptr["m_value"]
        tb == s.ptr["m_trace"]
    IN  PyErr_Restore(Py_XINCREF(Py_XINCREF(Py_XINCREF(s, t), v), tb), t, v, tb)

\* restore() { PyErr_Restore(m_type.release().ptr(), m_value.release().ptr(),
\*                           m_trace.release().ptr()); }
error_already_set_restore(s) ==
    LET r1 == object_release(s, "m_type")
        r2 == object_release(r1.st, "m_value")
        r3 == object_release(r2.st, "m_trace")
    IN  PyErr_Restore(r3.st, r1.ret, r2.ret, r3.ret)

\* ~error_already_set(): the three members are destroyed
error_already_set_dtor(s) ==
    LET s1 == object_dtor(s, "m_trace")
        s2 == object_dtor(s1, "m_value")
        s3 == object_dtor(s2, "m_type")
    IN  [s3 EXCEPT !.ptr = [k \in Slots |-> Null]]

\* ------------------------------------------------------- translate_exception
\* The classes a thrown object can have, with the base class of each.
ExcTypes == {"error_already_set", "builtin_exception", "bad_alloc",
             "bad_array_new_length", "domain_error", "invalid_argument",
             "length_error", "out_of_range", "range_error", "overflow_error",
             "logic_error", "runtime_error", "exception", "non_std"}

Base(t) ==
    CASE t \in {"error_already_set", "builtin_exception", "range_error",
                "overflow_error"} -> "runtime_error"
      [] t \in {"domain_error", "invalid_argument", "length_error",
                "out_of_range"} -> "logic_error"
      [] t = "bad_array_new_length" -> "bad_alloc"
      [] t \in {"bad_alloc", "logic_error", "runtime_error"} -> "exception"
      [] OTHER -> "none"

RECURSIVE IsA(_, _)
IsA(t, c) == IF t = c THEN TRUE ELSE IF t = "none" THEN FALSE ELSE IsA(Base(t), c)

\* the catch clauses with std::exception tried before the specific classes
Handlers_GenericFirst ==
    << [catch |-> "error_already_set", sets |-> "restore"],
       [catch |-> "builtin_exception", sets |-> "set_error"],
       [catch |-> "exception",         sets |-> "RuntimeError"],
       [catch |-> "bad_alloc",         sets |-> "MemoryError"],
       [catch |-> "domain_error",      sets |-> "ValueError"],
       [catch |-> "invalid_argument",  sets |-> "ValueError"],
       [catch |-> "length_error",      sets |-> "ValueError"],
       [catch |-> "out_of_range",      sets |-> "IndexError"],
       [catch |-> "range_error",       sets |-> "ValueError"] >>

\* the catch clauses of translate_exception, in source order
Handlers ==
    << [catch |-> "error_already_set", sets |-> "restore"],
       [catch |-> "builtin_exception", sets |-> "set_error"],
       [catch |-> "bad_alloc",         sets |-> "MemoryError"],
       [catch |-> "domain_error",      sets |-> "ValueError"],
       [catch |-> "invalid_argument",  sets |-> "ValueError"],
       [catch |-> "length_error",      sets |-> "ValueError"],
       [catch |-> "out_of_range",      sets |-> "IndexError"],
       [catch |-> "range_error",       sets |-> "ValueError"],
       [catch |-> "exception",         sets |-> "RuntimeError"] >>

\* the first clause that catches an object of class t; 0 for catch (...)
FirstMatch(t) ==
    LET hits == {i \in 1..Len(Handlers) : IsA(t, Handlers[i].catch)}
    IN  IF hits = {} THEN 0 ELSE CHOOSE i \in hits : \A j \in hits : i <= j

\* PyErr_SetString(type, msg): the error pending afterwards (any earlier one is dropped)
PyErr_SetString(type, msg) == [type |-> type, msg |-> msg]

\* e.restore() on the caught error_already_set: the indicator takes what the value
\* holds; an empty value hands over nulls, which clears the indicator
restore_caught(e) == e.held

\* e.set_error() on a builtin_exception: PyErr_SetString(<its error class>, what())
builtin_set_error(e) == PyErr_SetString(e.cat, e.what)

translate_exception(p, cur) ==
    IF p.kind = "null" THEN cur
    ELSE LET i == FirstMatch(p.type)
         IN  IF i = 0
             THEN PyErr_SetString("RuntimeError", "Caught an unknown exception!")
             ELSE CASE Handlers[i].sets = "restore" -> restore_caught(p)
                    [] Handlers[i].sets = "set_error" -> builtin_set_error(p)
                    [] OTHER -> PyErr_SetString(Handlers[i].sets, p.what)

\* ------------------------------------------------------- registry state
Mod == 1..NumMod
Cell == Mod                 \* the cell `new internals*()` of module m is named m
Reg == 1..MaxRegs
\* the application that embeds the interpreter and calls finalize_interpreter
Embedder == CHOOSE m \in Mod : \A q \in Mod : m <= q

Absent == [kind |-> "absent", pp |-> Null]
capsule(pp) == [kind |-> "capsule", pp |-> pp]
\* a value under the key that is not a capsule
Other == [kind |-> "other", pp |-> Null]

\* names modules agree on, and the std::unordered_map without entries
Names == {"a", "b", "c"}
EmptyMap == [n \in {} |-> Null]
NeverSet == [set |-> FALSE, ptr |-> Null]

NoCall == [done |-> FALSE, ok |-> FALSE, ret |-> Null, run |-> 0, path |-> "none",
           inFinalize |-> FALSE]
NotFinalizing == [active |-> FALSE, internals_ptr_ptr |-> Null]

\* nothing loaded, no interpreter
RegStart ==
    /\ internals_pp = [m \in Mod |-> Null]
    /\ internals_ptr = [c \in Cell |-> Null]
    /\ builtins = Absent
    /\ translators = [r \in Reg |-> <<>>]
    /\ reglog = [r \in Reg |-> <<>>]
    /\ born = [r \in Reg |-> 0]
    /\ deletes = [r \in Reg |-> 0]
    /\ allocated = 0
    /\ run = 0
    /\ running = FALSE
    /\ finalizing = NotFinalizing
    /\ gil = 0
    /\ pc = [m \in Mod |-> "idle"]
    /\ first = [m \in Mod |-> NoCall]
    /\ shared_data = EmptyMap
    /\ lastset = [n \in Names |-> NeverSet]

\* the keys, indices and attribute names of the owner object that calls address
Keys == {"x", "y"}

\* no runtime iterator, no `options` value, no mapping traversal
IterIdle ==
    /\ rest = <<>>
    /\ bad = FALSE
    /\ src0 = <<>>
    /\ used = <<>>
    /\ calls = 0
    /\ lpc = "idle"

OptIdle ==
    /\ global_state = [show_user_defined_docstrings |-> TRUE,
                       show_function_signatures |-> TRUE]
    /\ scopes = <<>>

DictIdle ==
    /\ table = <<>>
    /\ dict_it = [pos |-> -1, key |-> Null, value |-> Null]
    /\ yielded = <<>>

MaxGuards == 4      \* scoped_interpreter values per behaviour
Guard == 1..MaxGuards
Unborn == [life |-> "unborn", is_valid |-> FALSE]

GuardIdle ==
    /\ guards = [g \in Guard |-> Unborn]
    /\ finals = 0

PyIdle == IterIdle /\ OptIdle /\ DictIdle /\ GuardIdle

\* the registry and the owner object are not part of the machine
RegIdle == RegStart /\ glibcxx = FALSE /\ items = [k \in Keys |-> Null] /\ PyIdle

\* ------------------------------------------------------- the Owning Reference machine
NoOp == [op |-> "init", a |-> 0, b |-> 0, h |-> Null, ret |-> Null]

Op(name, a, b, h, ret) == [op |-> name, a |-> a, b |-> b, h |-> h, ret |-> ret]

RefInit ==
    /\ RegIdle
    /\ cnt0 \in [Obj -> 1..MaxInitCount]
    /\ refcnt = cnt0
    /\ held = cnt0
    /\ incs = [o \in Obj |-> 0]
    /\ decs = [o \in Obj |-> 0]
    /\ m_ptr = [r \in Ref |-> Null]
    /\ live = {}
    /\ fault = FALSE
    /\ last = NoOp
    /\ before = cnt0
    /\ mid = <<>>
    /\ nops = 0
    /\ err = NoErr
    /\ err0 = NoErr
    /\ nraises = 0
    /\ thrown = NoFault
    /\ pending = NoPending

\* Commit the state t computed by a member function; heldNew is the ownership
\* book-keeping of the units that are not owned by an Owning Reference.
Commit(t, liveNew, heldNew, op, steps) ==
    /\ nops < MaxOps
    /\ nops' = nops + 1
    /\ refcnt' = t.cnt
    /\ incs' = t.incs
    /\ decs' = t.decs
    /\ m_ptr' = t.ptr
    /\ fault' = t.fault
    /\ live' = liveNew
    /\ held' = heldNew
    /\ last' = op
    /\ before' = refcnt
    /\ mid' = steps
    /\ err0' = err
    /\ err' = t.err
    /\ nraises' = IF op.op = "raise" THEN nraises + 1 ELSE nraises
    /\ UNCHANGED <<cnt0, excVars, regVars, accVars, pyVars>>

\* Storage for a new Owning Reference: the first slot that holds none.
Fresh == {r \in Ref \ live : \A q \in Ref \ live : r <= q}

\* A pointer the caller may legally pass: null or an object still allocated.
Valid(h) == IF h = Null THEN TRUE ELSE refcnt[h] > 0
\* The caller owns a count unit of h that it can give away.
Owned(h) == IF h = Null THEN TRUE ELSE held[h] > 0

\* a count map with the entry of object p (if p is not null) moved by d
Moved(cnt, p, d) == IF p = Null THEN cnt ELSE [cnt EXCEPT ![p] = @ + d]
\* ... with the entries of the three objects of an error triple moved by d
Moved3(cnt, e, d) == Moved(Moved(Moved(cnt, e.type, d), e.value, d), e.tb, d)

Give(h) == Moved(held, h, -1)
Take(h) == Moved(held, h, 1)

\* reinterpret_borrow<object>(h)
BorrowCtor ==
    \E r \in Fresh, h \in Ptr :
        /\ Valid(h)
        /\ Commit(object_borrowed(Cur, r, h), live \cup {r}, held,
                  Op("borrow", r, 0, h, Null), <<>>)

\* reinterpret_steal<object>(h): the caller hands over a unit it owns
StealCtor ==
    \E r \in Fresh, h \in Ptr :
        /\ Owned(h)
        /\ Commit(object_stolen(Cur, r, h), live \cup {r}, Give(h),
                  Op("steal", r, 0, h, Null), <<>>)

DeprecatedCtor ==
    \E r \in Fresh, h \in Ptr, is_borrowed \in BOOLEAN :
        /\ IF is_borrowed THEN Valid(h) ELSE Owned(h)
        /\ Commit(object_deprecated(Cur, r, h, is_borrowed), live \cup {r},
                  IF is_borrowed THEN held ELSE Give(h),
                  Op(IF is_borrowed THEN "borrow" ELSE "steal", r, 0, h, Null), <<>>)

CopyCtor ==
    \E r \in Fresh, o \in live :
        Commit(object_copy(Cur, r, o), live \cup {r}, held,
               Op("copy", r, o, Null, Null), <<>>)

MoveCtor ==
    \E r \in Fresh, o \in live :
        Commit(object_move(Cur, r, o), live \cup {r}, held,
               Op("move", r, o, Null, Null), <<>>)

CopyAssign ==
    \E a \in live, b \in live :
        LET steps == object_copy_assign_steps(Cur, a, b)
        IN  Commit(object_copy_assign(Cur, a, b), live, held,
                   Op("copy_assign", a, b, Null, Null),
                   <<steps[1].cnt, steps[2].cnt>>)

MoveAssign ==
    \E a \in live, b \in live :
        Commit(object_move_assign(Cur, a, b), live, held,
               Op("move_assign", a, b, Null, Null), <<>>)

\* release(): the returned handle now carries the unit
Release ==
    \E r \in live :
        LET res == object_release(Cur, r)
        IN  Commit(res.st, live, Take(res.ret),
                   Op("release", r, 0, Null, res.ret), <<>>)

\* the Owning Reference goes out of scope; its storage is dead afterwards
Dtor ==
    \E r \in live :
        LET t == object_dtor(Cur, r)
        IN  Commit([t EXCEPT !.ptr[r] = Null], live \ {r}, held,
                   Op("dtor", r, 0, m_ptr[r], Null), <<>>)

\* handle(h).inc_ref() by the caller: the caller owns the new unit
HandleIncRef ==
    \E h \in Ptr :
        /\ Valid(h)
        /\ Commit(handle_inc_ref(Cur, h), live, Take(h),
                  Op("inc_ref", 0, 0, h, Null), <<>>)

\* handle(h).dec_ref() by the caller: the caller gives up a unit it owns
HandleDecRef ==
    \E h \in Ptr :
        /\ Owned(h)
        /\ Commit(handle_dec_ref(Cur, h), live, Give(h),
                  Op("dec_ref", 0, 0, h, Null), <<>>)

RefNext ==
    \/ BorrowCtor
    \/ StealCtor
    \/ DeprecatedCtor
    \/ CopyCtor
    \/ MoveCtor
    \/ CopyAssign
    \/ MoveAssign
    \/ Release
    \/ Dtor
    \/ HandleIncRef
    \/ HandleDecRef

SpecRef == RefInit /\ [][RefNext]_vars


\* ------------------------------------------------------- the Error Bridge machine
EOp(name) == [op |-> name, after |-> last.op]

ErrInit ==
    /\ RegIdle
    /\ cnt0 = [o \in Obj |-> 1]
    /\ refcnt = cnt0
    /\ held = cnt0
    /\ incs = [o \in Obj |-> 0]
    /\ decs = [o \in Obj |-> 0]
    /\ m_ptr = [k \in Slots |-> Null]
    /\ live = {}
    /\ fault = FALSE
    /\ last = [op |-> "init", after |-> "none"]
    /\ before = cnt0
    /\ mid = <<>>
    /\ nops = 0
    /\ err = NoErr
    /\ err0 = NoErr
    /\ nraises = 0
    /\ thrown = NoFault
    /\ pending = NoPending

\* A runtime call fails: the runtime sets its error indicator to (t, v, tb),
\* with a reference of its own to each.
RuntimeRaises ==
    \E t \in Obj, v \in Ptr, tb \in Ptr :
        /\ nraises < MaxRaises
        /\ Valid(t) /\ Valid(v) /\ Valid(tb)
        /\ LET new == [type |-> t, value |-> v, tb |-> tb]
               s1  == Py_XINCREF(Py_XINCREF(Py_XINCREF(Cur, t), v), tb)
           IN  Commit(PyErr_Restore(s1, t, v, tb), live,
                      Moved3(Moved3(held, new, 1), err, -1), EOp("raise"), <<>>)

\* PyErr_Clear()
RuntimeClears ==
    /\ err /= NoErr
    /\ Commit(PyErr_Restore(Cur, Null, Null, Null), live, Moved3(held, err, -1),
              EOp("clear"), <<>>)

\* throw error_already_set(): the value takes the indicator's references
Capture ==
    /\ live = {}
    /\ Commit(error_already_set_ctor(Cur), Slots, Moved3(held, err, -1),
              EOp("capture"), <<>>)

\* e.restore(): the indicator takes the value's references and drops its own
Restore ==
    /\ live = Slots
    /\ Commit(error_already_set_restore(Cur), live,
              Moved3(Moved3(held, [type |-> m_ptr["m_type"], value |-> m_ptr["m_value"],
                                   tb |-> m_ptr["m_trace"]], 1), err, -1),
              EOp("restore"), <<>>)

\* the caught value goes out of scope
Discard ==
    /\ live = Slots
    /\ Commit(error_already_set_dtor(Cur), {}, held, EOp("discard"), <<>>)

ErrNext ==
    \/ RuntimeRaises
    \/ RuntimeClears
    \/ Capture
    \/ Restore
    \/ Discard

SpecErr == ErrInit /\ [][ErrNext]_vars

\* ------------------------------------------------------- the call-boundary machine
Msgs == {"m1", "m2"}
BuiltinCats == {"StopIteration", "IndexError", "KeyError", "ValueError", "TypeError",
                "RuntimeError"}
\* errors a failed runtime call leaves, as captured by an error_already_set
PyErrors == {PyErr_SetString(c, m) : c \in {"KeyError", "TypeError"}, m \in Msgs}

Faults ==
    {Fault("null", "none", "none", NoPending, "none")}
    \cup {Fault("exc", t, m, NoPending, "none") :
              t \in ExcTypes \ {"error_already_set", "builtin_exception", "non_std"},
              m \in Msgs}
    \cup {Fault("exc", "non_std", "none", NoPending, "none")}
    \cup {Fault("exc", "error_already_set", m, e, "none") :
              m \in Msgs, e \in PyErrors \cup {NoPending}}
    \cup {Fault("exc", "builtin_exception", m, NoPending, c) :
              m \in Msgs, c \in BuiltinCats}

ExcInit ==
    /\ RegIdle
    /\ cnt0 = [o \in Obj |-> 1]
    /\ refcnt = cnt0
    /\ held = cnt0
    /\ incs = [o \in Obj |-> 0]
    /\ decs = [o \in Obj |-> 0]
    /\ m_ptr = [r \in Ref |-> Null]
    /\ live = {}
    /\ fault = FALSE
    /\ last = [op |-> "init"]
    /\ before = cnt0
    /\ mid = <<>>
    /\ nops = 0
    /\ err = NoErr
    /\ err0 = NoErr
    /\ nraises = 0
    /\ thrown = NoFault
    /\ pending \in PyErrors \cup {NoPending}

\* a bound function exits with an exception (or the dispatcher holds none)
Throw ==
    /\ last.op /= "throw"
    /\ \E p \in Faults : thrown' = p
    /\ last' = [op |-> "throw"]
    /\ UNCHANGED <<pending, refcnt, cnt0, incs, decs, held, m_ptr, live, fault,
                   before, mid, nops, errVars, regVars, accVars, pyVars>>

\* the dispatcher hands it to translate_exception
Translate ==
    /\ last.op = "throw"
    /\ pending' = translate_exception(thrown, pending)
    /\ last' = [op |-> "translate"]
    /\ UNCHANGED <<thrown, refcnt, cnt0, incs, decs, held, m_ptr, live, fault,
                   before, mid, nops, errVars, regVars, accVars, pyVars>>

ExcNext ==
    \/ Throw
    \/ Translate

SpecExc == ExcInit /\ [][ExcNext]_vars

\* ------------------------------------------------------- the Internals Registry machine
\* The part of the state get_internals and finalize_interpreter read and write.
RCur == [pp |-> internals_pp, ptr |-> internals_ptr, builtins |-> builtins,
         tr |-> translators, log |-> reglog, born |-> born, deletes |-> deletes,
         n |-> allocated, gil |-> gil, fault |-> fault]

Translator(fn, m) == [fn |-> fn, mod |-> m]

\* std::forward_list::push_back does not exist; a chain that grows at the tail
push_back(list, x) == list \o <<x>>
\* std::forward_list::push_front
push_front(list, x) == <<x>> \o list

\* builtins.contains(id) && isinstance<capsule>(builtins[id])
has_capsule(s) == s.builtins.kind = "capsule"

\* internals_pp && *internals_pp
get_internals_hit(s, m) ==
    IF s.pp[m] = Null THEN FALSE ELSE s.ptr[s.pp[m]] /= Null

\* PyGILState_Ensure by thread t: the token tells whether t held the lock already
PyGILState_Ensure(s, t) ==
    [st |-> [s EXCEPT !.gil = t], state |-> IF s.gil = t THEN "LOCKED" ELSE "UNLOCKED"]
PyGILState_Release(s, state) ==
    IF state = "UNLOCKED" THEN [s EXCEPT !.gil = 0] ELSE s

\* the branch that adopts the registry another module published
get_internals_adopt(s, m, lib) ==
    LET c == s.builtins.pp
        r == s.ptr[c]
        x == Translator("translate_local_exception", m)
    IN  IF r = Null
        THEN [s EXCEPT !.pp[m] = c, !.fault = TRUE]
        ELSE IF lib
        THEN [s EXCEPT !.pp[m] = c]
        ELSE [s EXCEPT !.pp[m] = c, !.tr[r] = push_front(@, x), !.log[r] = Append(@, x)]

\* a create branch that forgets to publish the capsule
get_internals_create_Unpublished(s, m, tss_ok, now) ==
    LET c  == IF s.pp[m] = Null THEN m ELSE s.pp[m]
        r  == s.n + 1
        x  == Translator("translate_exception", m)
        s1 == [s EXCEPT !.pp[m] = c, !.ptr[c] = r, !.n = r, !.born[r] = now]
    IN  IF tss_ok
        THEN [s1 EXCEPT !.tr[r] = push_front(@, x), !.log[r] = Append(@, x)]
        ELSE s1

\* the branch that allocates; tss_ok tells whether the per-thread key could be
\* initialized.  pybind11_fail leaves by an exception after the allocation.
get_internals_create(s, m, tss_ok, now) ==
    LET c  == IF s.pp[m] = Null THEN m ELSE s.pp[m]
        r  == s.n + 1
        x  == Translator("translate_exception", m)
        s1 == [s EXCEPT !.pp[m] = c, !.ptr[c] = r, !.n = r, !.born[r] = now]
    IN  IF tss_ok
        THEN [s1 EXCEPT !.builtins = capsule(c), !.tr[r] = push_front(@, x),
                        !.log[r] = Append(@, x)]
        ELSE s1

\* get_internals in which the lock stays held when pybind11_fail throws
get_internals_locked_KeepsLockOnThrow(s, m, state, tss_ok, lib, now) ==
    IF has_capsule(s)
    THEN [st |-> PyGILState_Release(get_internals_adopt(s, m, lib), state),
          path |-> "adopt"]
    ELSE IF tss_ok
    THEN [st |-> PyGILState_Release(get_internals_create(s, m, tss_ok, now), state),
          path |-> "create"]
    ELSE [st |-> get_internals_create(s, m, tss_ok, now), path |-> "fail"]

\* get_internals that adopts whatever the key holds, capsule or not
get_internals_locked_AdoptsAny(s, m, state, tss_ok, lib, now) ==
    IF s.builtins.kind /= "absent"
    THEN [st |-> PyGILState_Release(
                    IF s.builtins.pp = Null
                    THEN [s EXCEPT !.pp[m] = Null, !.fault = TRUE]
                    ELSE get_internals_adopt(s, m, lib), state),
          path |-> "adopt"]
    ELSE [st |-> PyGILState_Release(get_internals_create(s, m, tss_ok, now), state),
          path |-> IF tss_ok THEN "create" ELSE "fail"]

\* get_internals from the point where `gil` is constructed; `state` is the token
\* PyGILState_Ensure returned.  ~gil_scoped_acquire_local runs on return and on throw.
get_internals_locked(s, m, state, tss_ok, lib, now) ==
    IF has_capsule(s)
    THEN [st |-> PyGILState_Release(get_internals_adopt(s, m, lib), state),
          path |-> "adopt"]
    ELSE [st |-> PyGILState_Release(get_internals_create(s, m, tss_ok, now), state),
          path |-> IF tss_ok THEN "create" ELSE "fail"]

\* the whole of get_internals, called by code of module m on thread t
get_internals(s, t, m, tss_ok, lib, now) ==
    IF get_internals_hit(s, m)
    THEN [st |-> s, path |-> "fast"]
    ELSE LET e == PyGILState_Ensure(s, t)
         IN  get_internals_locked(e.st, m, e.state, tss_ok, lib, now)

\* what a call that ended on `path` in state t handed back
Returned(t, m, path) ==
    IF path = "fail" THEN Null
    ELSE IF t.pp[m] = Null THEN Null
    ELSE t.ptr[t.pp[m]]

\* finalize_interpreter up to Py_Finalize: the value of its local internals_ptr_ptr
finalize_lookup(s, m) == IF has_capsule(s) THEN s.builtins.pp ELSE s.pp[m]

\* Py_Finalize destroys the builtin namespace
Py_Finalize(s) == [s EXCEPT !.builtins = Absent]

\* finalize_interpreter after Py_Finalize that deletes without clearing the pointer
finalize_delete_KeepsPointer(s, ipp) ==
    IF ipp = Null \/ s.ptr[ipp] = Null THEN s
    ELSE [s EXCEPT !.deletes[s.ptr[ipp]] = @ + 1]

\* finalize_interpreter after Py_Finalize
finalize_delete(s, ipp) ==
    IF ipp = Null THEN s
    ELSE IF s.ptr[ipp] = Null THEN s
    ELSE [s EXCEPT !.deletes[s.ptr[ipp]] = @ + 1, !.ptr[ipp] = Null]

\* a step, with what the key held when it began
ROp(name, m, ret, path) ==
    [op |-> name, m |-> m, ret |-> ret, path |-> path, key |-> builtins.kind]

RegInit ==
    /\ RegStart
    /\ PyIdle
    /\ items = [k \in Keys |-> Null]
    /\ glibcxx \in BOOLEAN
    /\ cnt0 = [o \in Obj |-> 1]
    /\ refcnt = cnt0
    /\ held = cnt0
    /\ incs = [o \in Obj |-> 0]
    /\ decs = [o \in Obj |-> 0]
    /\ m_ptr = [r \in Ref |-> Null]
    /\ live = {}
    /\ fault = FALSE
    /\ last = ROp("init", 0, Null, "none")
    /\ before = cnt0
    /\ mid = <<>>
    /\ nops = 0
    /\ err = NoErr
    /\ err0 = NoErr
    /\ nraises = 0
    /\ thrown = NoFault
    /\ pending = NoPending

RegFrame == UNCHANGED <<refcnt, cnt0, incs, decs, held, m_ptr, live, before, mid, nops,
                        errVars, excVars, glibcxx, shared_data, lastset, accVars, pyVars>>

\* Commit the registry state t; op tells what was done
RCommit(t, op) ==
    /\ internals_pp' = t.pp
    /\ internals_ptr' = t.ptr
    /\ builtins' = t.builtins
    /\ translators' = t.tr
    /\ reglog' = t.log
    /\ born' = t.born
    /\ deletes' = t.deletes
    /\ allocated' = t.n
    /\ gil' = t.gil
    /\ fault' = t.fault
    /\ last' = op
    /\ RegFrame

\* the record of module m's first call, once it has ended
FirstCall(m, t, path) ==
    IF first[m].done THEN first
    ELSE [first EXCEPT ![m] = [done |-> TRUE, ok |-> path /= "fail",
                               ret |-> Returned(t, m, path), run |-> run, path |-> path,
                               inFinalize |-> finalizing.active]]

\* the allocation cap: a call that would allocate needs a free registry number
CanRun(s) == has_capsule(s) \/ s.n < MaxRegs

\* Py_InitializeEx: a new interpreter with a new builtin namespace
Py_InitializeEx(s) == [s EXCEPT !.builtins = Absent]

\* an initialize_interpreter without the Py_IsInitialized() test
initialize_interpreter_NoTest(s, initialized) ==
    [st |-> Py_InitializeEx(s), path |-> "none"]

\* void initialize_interpreter(bool init_signal_handlers): path "fail" is the exit
\* by pybind11_fail("The interpreter is already running"); the entry "." that is
\* appended to sys.path is no part of the state
initialize_interpreter(s, initialized) ==
    IF initialized THEN [st |-> s, path |-> "fail"]
    ELSE [st |-> Py_InitializeEx(s), path |-> "none"]

\* the embedder calls initialize_interpreter, with or without an interpreter running
Initialize ==
    /\ ~finalizing.active
    /\ \A m \in Mod : pc[m] = "idle"
    /\ running \/ run < MaxRuns
    /\ LET r == initialize_interpreter(RCur, running)
       IN  /\ running' = (running \/ r.path = "none")
           /\ run' = IF r.path = "none" THEN run + 1 ELSE run
           /\ RCommit(r.st, ROp("initialize", 0, Null, r.path))
    /\ UNCHANGED <<finalizing, pc, first>>

\* code of the interpreter stores some other value under the key nobody uses yet
StoreOther ==
    /\ running /\ ~finalizing.active
    /\ builtins = Absent
    /\ RCommit([RCur EXCEPT !.builtins = Other], ROp("store_other", 0, Null, "none"))
    /\ UNCHANGED <<run, running, finalizing, pc, first>>

\* a thread running code of module m enters get_internals and tests its pointer
Call(m) ==
    /\ running /\ ~finalizing.active
    /\ pc[m] = "idle"
    /\ IF get_internals_hit(RCur, m)
       THEN /\ RCommit(RCur, ROp("get_internals", m, Returned(RCur, m, "fast"), "fast"))
            /\ first' = FirstCall(m, RCur, "fast")
            /\ pc' = pc
       ELSE /\ RCommit(RCur, ROp("check", m, Null, "miss"))
            /\ pc' = [pc EXCEPT ![m] = "ensure"]
            /\ first' = first
    /\ UNCHANGED <<run, running, finalizing>>

\* ... waits for the lock in the constructor of `gil`
Ensure(m) ==
    /\ pc[m] = "ensure"
    /\ gil = 0
    /\ RCommit(PyGILState_Ensure(RCur, m).st, ROp("PyGILState_Ensure", m, Null, "none"))
    /\ pc' = [pc EXCEPT ![m] = "locked"]
    /\ UNCHANGED <<run, running, finalizing, first>>

\* ... and runs the rest of get_internals, to its return or to the throw
Locked(m) ==
    /\ pc[m] = "locked"
    /\ CanRun(RCur)
    /\ \E tss_ok \in BOOLEAN :
        LET res == get_internals_locked(RCur, m, "UNLOCKED", tss_ok, glibcxx, run)
        IN  /\ RCommit(res.st, ROp("get_internals", m, Returned(res.st, m, res.path),
                                   res.path))
            /\ first' = FirstCall(m, res.st, res.path)
    /\ pc' = [pc EXCEPT ![m] = "idle"]
    /\ UNCHANGED <<run, running, finalizing>>

\* finalize_interpreter up to its call of Py_Finalize; the caller holds the lock
FinalizeBegin ==
    /\ running /\ ~finalizing.active
    /\ \A m \in Mod : pc[m] = "idle"
    /\ gil = 0
    /\ finalizing' = [active |-> TRUE,
                      internals_ptr_ptr |-> finalize_lookup(RCur, Embedder)]
    /\ RCommit([RCur EXCEPT !.gil = Embedder], ROp("finalize_begin", 0, Null, "none"))
    /\ UNCHANGED <<run, running, pc, first>>

\* a destructor that Py_Finalize runs calls get_internals from code of module m
DuringFinalize(m) ==
    /\ finalizing.active
    /\ get_internals_hit(RCur, m) \/ CanRun(RCur)
    /\ \E tss_ok \in BOOLEAN :
        LET res == get_internals(RCur, Embedder, m, tss_ok, glibcxx, run)
        IN  /\ RCommit(res.st, ROp("get_internals", m, Returned(res.st, m, res.path),
                                   res.path))
            /\ first' = FirstCall(m, res.st, res.path)
    /\ UNCHANGED <<run, running, finalizing, pc>>

\* Py_Finalize returns and finalize_interpreter deletes what its pointer designates
FinalizeEnd ==
    /\ finalizing.active
    /\ running' = FALSE
    /\ finalizing' = NotFinalizing
    /\ RCommit([finalize_delete(Py_Finalize(RCur), finalizing.internals_ptr_ptr)
                   EXCEPT !.gil = 0],
               ROp("finalize_end", 0, Null, "none"))
    /\ UNCHANGED <<run, pc, first>>

RegNext ==
    \/ Initialize
    \/ StoreOther
    \/ \E m \in Mod : Call(m)
    \/ \E m \in Mod : Ensure(m)
    \/ \E m \in Mod : Locked(m)
    \/ FinalizeBegin
    \/ \E m \in Mod : DuringFinalize(m)
    \/ FinalizeEnd

SpecReg == RegInit /\ [][RegNext]_vars


\* ------------------------------------------------------- shared data of the registry
\* a lookup with operator[], which inserts the name it does not find
get_shared_data_Inserting(sd, name) ==
    [sd |-> IF name \in DOMAIN sd THEN sd
            ELSE [n \in DOMAIN sd \cup {name} |-> IF n = name THEN Null ELSE sd[n]],
     ret |-> IF name \in DOMAIN sd THEN sd[name] ELSE Null]

\* get_shared_data: find(name), nullptr at end()
get_shared_data(sd, name) ==
    [sd |-> sd, ret |-> IF name \in DOMAIN sd THEN sd[name] ELSE Null]

\* set_shared_data: shared_data[name] = data; return data
set_shared_data(sd, name, data) ==
    [sd |-> [n \in DOMAIN sd \cup {name} |-> IF n = name THEN data ELSE sd[n]],
     ret |-> data]

SOp(name, n, data, ret) == [op |-> name, name |-> n, data |-> data, ret |-> ret]

\* one registry, set up by an earlier get_internals call, nothing stored in it
SharedInit ==
    /\ RegIdle
    /\ cnt0 = [o \in Obj |-> 1]
    /\ refcnt = cnt0
    /\ held = cnt0
    /\ incs = [o \in Obj |-> 0]
    /\ decs = [o \in Obj |-> 0]
    /\ m_ptr = [r \in Ref |-> Null]
    /\ live = {}
    /\ fault = FALSE
    /\ last = SOp("init", "a", Null, Null)
    /\ before = cnt0
    /\ mid = <<>>
    /\ nops = 0
    /\ err = NoErr
    /\ err0 = NoErr
    /\ nraises = 0
    /\ thrown = NoFault
    /\ pending = NoPending

SharedFrame ==
    UNCHANGED <<refcnt, cnt0, incs, decs, held, m_ptr, live, fault, before, mid, nops,
                errVars, excVars, internals_pp, internals_ptr, builtins, translators,
                reglog, born, deletes, allocated, run, running, finalizing, gil, pc,
                glibcxx, first, accVars, pyVars>>

GetSharedData ==
    \E name \in Names :
        LET res == get_shared_data(shared_data, name)
        IN  /\ shared_data' = res.sd
            /\ lastset' = lastset
            /\ last' = SOp("get_shared_data", name, Null, res.ret)
            /\ SharedFrame

SetSharedData ==
    \E name \in Names, data \in Ptr :
        LET res == set_shared_data(shared_data, name, data)
        IN  /\ shared_data' = res.sd
            /\ lastset' = [lastset EXCEPT ![name] = [set |-> TRUE, ptr |-> data]]
            /\ last' = SOp("set_shared_data", name, data, res.ret)
            /\ SharedFrame

SharedNext ==
    \/ GetSharedData
    \/ SetSharedData

SpecShared == SharedInit /\ [][SharedNext]_vars


\* ------------------------------------------------------- accessor_policies
AccSlots == Slots \cup {"result"}

\* The part of the state an accessor call reads and writes: `threw` tells that the
\* call left by `throw error_already_set()`, `fail` that it left by pybind11_fail,
\* `winc` counts the inc_ref() calls the wrapper itself made, `ret` is the number
\* it returned (true is 1).
ACur == [cnt |-> refcnt, incs |-> incs, decs |-> decs, ptr |-> m_ptr, fault |-> fault,
         err |-> err, items |-> items, threw |-> FALSE, winc |-> 0, fail |-> FALSE,
         ret |-> 0]

\* a runtime call fails: the runtime sets its indicator to e, with references of
\* its own
RuntimeFails(s, e) ==
    PyErr_Restore(Py_XINCREF(Py_XINCREF(Py_XINCREF(s, e.type), e.value), e.tb),
                  e.type, e.value, e.tb)

\* runtime calls that return a new reference (or NULL with an error set)
NewRefGet(s, k, ok, e) ==
    IF ok /\ s.items[k] /= Null
    THEN [st |-> Py_XINCREF(s, s.items[k]), result |-> s.items[k]]
    ELSE [st |-> RuntimeFails(s, e), result |-> Null]

\* runtime calls that return a borrowed reference (or NULL with an error set)
BorrowedGet(s, k, ok, e) ==
    IF ok /\ s.items[k] /= Null
    THEN [st |-> s, result |-> s.items[k]]
    ELSE [st |-> RuntimeFails(s, e), result |-> Null]

\* runtime calls that store val with a reference of their own and release the
\* element they replace (or return -1 with an error set)
KeepingSet(s, k, val, ok, e) ==
    IF ok
    THEN LET s1 == Py_XINCREF(s, val)
             s2 == [s1 EXCEPT !.items[k] = val]
         IN  [st |-> Py_XDECREF(s2, s.items[k]), failed |-> FALSE]
    ELSE [st |-> RuntimeFails(s, e), failed |-> TRUE]

\* runtime calls that take over the caller's reference to val, also when they fail
StealingSet(s, k, val, ok, e) ==
    IF ok
    THEN LET s1 == [s EXCEPT !.items[k] = val]
         IN  [st |-> Py_XDECREF(s1, s.items[k]), failed |-> FALSE]
    ELSE [st |-> RuntimeFails(Py_XDECREF(s, val), e), failed |-> TRUE]

PyObject_GetAttr(s, k, ok, e) == NewRefGet(s, k, ok, e)
PyObject_GetAttrString(s, k, ok, e) == NewRefGet(s, k, ok, e)
PyObject_GetItem(s, k, ok, e) == NewRefGet(s, k, ok, e)
PySequence_GetItem(s, k, ok, e) == NewRefGet(s, k, ok, e)
PyList_GetItem(s, k, ok, e) == BorrowedGet(s, k, ok, e)
PyTuple_GetItem(s, k, ok, e) == BorrowedGet(s, k, ok, e)
PyObject_SetAttr(s, k, val, ok, e) == KeepingSet(s, k, val, ok, e)
PyObject_SetAttrString(s, k, val, ok, e) == KeepingSet(s, k, val, ok, e)
PyObject_SetItem(s, k, val, ok, e) == KeepingSet(s, k, val, ok, e)
PySequence_SetItem(s, k, val, ok, e) == KeepingSet(s, k, val, ok, e)
PyList_SetItem(s, k, val, ok, e) == StealingSet(s, k, val, ok, e)
PyTuple_SetItem(s, k, val, ok, e) == StealingSet(s, k, val, ok, e)

\* throw error_already_set(): the new value takes the indicator's references
throw_error_already_set(s) ==
    LET t == error_already_set_ctor(s)
    IN  [t EXCEPT !.ptr = [k \in DOMAIN s.ptr |-> IF k \in Slots THEN t.ptr[k]
                                                  ELSE s.ptr[k]],
                  !.threw = TRUE]

\* if (!result) throw error_already_set(); return reinterpret_steal<object>(result);
steal_or_throw(r) ==
    IF r.result = Null THEN throw_error_already_set(r.st)
    ELSE object_stolen(r.st, "result", r.result)

\* if (!result) throw error_already_set(); return reinterpret_borrow<object>(result);
borrow_or_throw(r) ==
    IF r.result = Null THEN throw_error_already_set(r.st)
    ELSE object_borrowed(r.st, "result", r.result)

\* if (... != 0) throw error_already_set();
throw_if_failed(r) == IF r.failed THEN throw_error_already_set(r.st) ELSE r.st

\* val.inc_ref() in a wrapper
val_inc_ref(s, val) == [handle_inc_ref(s, val) EXCEPT !.winc = @ + 1]

getattr(s, k, ok, e) == steal_or_throw(PyObject_GetAttr(s, k, ok, e))
getattr_str(s, k, ok, e) == steal_or_throw(PyObject_GetAttrString(s, k, ok, e))
setattr(s, k, val, ok, e) == throw_if_failed(PyObject_SetAttr(s, k, val, ok, e))
setattr_str(s, k, val, ok, e) == throw_if_failed(PyObject_SetAttrString(s, k, val, ok, e))

obj_attr_get(s, k, ok, e) == getattr(s, k, ok, e)
obj_attr_set(s, k, val, ok, e) == setattr(s, k, val, ok, e)
str_attr_get(s, k, ok, e) == getattr_str(s, k, ok, e)
str_attr_set(s, k, val, ok, e) == setattr_str(s, k, val, ok, e)
generic_item_get(s, k, ok, e) == steal_or_throw(PyObject_GetItem(s, k, ok, e))
generic_item_set(s, k, val, ok, e) == throw_if_failed(PyObject_SetItem(s, k, val, ok, e))
sequence_item_get(s, k, ok, e) == steal_or_throw(PySequence_GetItem(s, k, ok, e))
sequence_item_set(s, k, val, ok, e) ==
    throw_if_failed(PySequence_SetItem(s, k, val, ok, e))

\* a list getter that adopts the borrowed pointer without counting it
list_item_get_Stealing(s, k, ok, e) == steal_or_throw(PyList_GetItem(s, k, ok, e))

list_item_get(s, k, ok, e) == borrow_or_throw(PyList_GetItem(s, k, ok, e))

\* a list setter without the pre-increment
list_item_set_NoIncRef(s, k, val, ok, e) ==
    throw_if_failed(PyList_SetItem(s, k, val, ok, e))

list_item_set(s, k, val, ok, e) ==
    throw_if_failed(PyList_SetItem(val_inc_ref(s, val), k, val, ok, e))
tuple_item_get(s, k, ok, e) == borrow_or_throw(PyTuple_GetItem(s, k, ok, e))
tuple_item_set(s, k, val, ok, e) ==
    throw_if_failed(PyTuple_SetItem(val_inc_ref(s, val), k, val, ok, e))

Policies == {"obj_attr", "str_attr", "generic_item", "sequence_item", "list_item",
             "tuple_item"}

policy_get(p, s, k, ok, e) ==
    CASE p = "obj_attr" -> obj_attr_get(s, k, ok, e)
      [] p = "str_attr" -> str_attr_get(s, k, ok, e)
      [] p = "generic_item" -> generic_item_get(s, k, ok, e)
      [] p = "sequence_item" -> sequence_item_get(s, k, ok, e)
      [] p = "list_item" -> list_item_get(s, k, ok, e)
      [] p = "tuple_item" -> tuple_item_get(s, k, ok, e)

policy_set(p, s, k, val, ok, e) ==
    CASE p = "obj_attr" -> obj_attr_set(s, k, val, ok, e)
      [] p = "str_attr" -> str_attr_set(s, k, val, ok, e)
      [] p = "generic_item" -> generic_item_set(s, k, val, ok, e)
      [] p = "sequence_item" -> sequence_item_set(s, k, val, ok, e)
      [] p = "list_item" -> list_item_set(s, k, val, ok, e)
      [] p = "tuple_item" -> tuple_item_set(s, k, val, ok, e)

\* ------------------------------------------------------- python_builtins
\* PyErr_Clear(): PyErr_Restore(NULL, NULL, NULL)
PyErr_Clear(s) == PyErr_Restore(s, Null, Null, Null)

\* pybind11_fail(reason): leaves by throwing std::runtime_error(reason)
pybind11_fail(s) == [s EXCEPT !.fail = TRUE]

\* runtime calls that return a number or a flag, or -1 with an error set
IntCall(s, n, ok, e) ==
    IF ok THEN [st |-> s, result |-> n]
    ELSE [st |-> RuntimeFails(s, e), result |-> -1]

\* runtime calls that create an object (or find a shared one) and return a new
\* reference to it, or NULL with an error set
NewObject(s, o, ok, e) ==
    IF ok THEN [st |-> Py_XINCREF(s, o), result |-> o]
    ELSE [st |-> RuntimeFails(s, e), result |-> Null]

\* the number of entries of the owner object
Size(s) == Cardinality({k \in Keys : s.items[k] /= Null})

PyObject_IsInstance(s, ok, e) == IntCall(s, 1, ok, e)
PyObject_Hash(s, ok, e) == IntCall(s, 1, ok, e)
PyObject_Length(s, ok, e) == IntCall(s, Size(s), ok, e)
PyObject_LengthHint(s, ok, e) == IntCall(s, Size(s), ok, e)
PyObject_Repr(s, o, ok, e) == NewObject(s, o, ok, e)
PyObject_GetIter(s, o, ok, e) == NewObject(s, o, ok, e)
PyObject_DelAttr(s, k, ok, e) ==
    IF ok /\ s.items[k] /= Null
    THEN [st |-> Py_XDECREF([s EXCEPT !.items[k] = Null], s.items[k]), failed |-> FALSE]
    ELSE [st |-> RuntimeFails(s, e), failed |-> TRUE]

\* bool isinstance(handle obj, handle type)
isinstance(s, ok, e) ==
    LET r == PyObject_IsInstance(s, ok, e)
    IN  IF r.result = -1 THEN throw_error_already_set(r.st)
        ELSE [r.st EXCEPT !.ret = r.result]

\* void delattr(handle obj, handle name)
delattr(s, k, ok, e) == throw_if_failed(PyObject_DelAttr(s, k, ok, e))

\* ssize_t hash(handle obj)
hash(s, ok, e) ==
    LET r == PyObject_Hash(s, ok, e)
    IN  IF r.result = -1 THEN throw_error_already_set(r.st)
        ELSE [r.st EXCEPT !.ret = r.result]

\* a getattr with default that leaves the error of the failed lookup pending
getattr_default_NoClear(s, k, default_, ok, e) ==
    LET r == PyObject_GetAttr(s, k, ok, e)
    IN  IF r.result /= Null THEN object_stolen(r.st, "result", r.result)
        ELSE object_borrowed(r.st, "result", default_)

\* object getattr(handle obj, handle name, handle default_)
getattr_default(s, k, default_, ok, e) ==
    LET r == PyObject_GetAttr(s, k, ok, e)
    IN  IF r.result /= Null THEN object_stolen(r.st, "result", r.result)
        ELSE object_borrowed(PyErr_Clear(r.st), "result", default_)

\* object getattr(handle obj, const char *name, handle default_)
getattr_str_default(s, k, default_, ok, e) ==
    LET r == PyObject_GetAttrString(s, k, ok, e)
    IN  IF r.result /= Null THEN object_stolen(r.st, "result", r.result)
        ELSE object_borrowed(PyErr_Clear(r.st), "result", default_)

\* bool PyIterable_Check(PyObject *obj)
PyIterable_Check(s, o, ok, e) ==
    LET r == PyObject_GetIter(s, o, ok, e)
    IN  IF r.result /= Null THEN [Py_XDECREF(r.st, r.result) EXCEPT !.ret = 1]
        ELSE [PyErr_Clear(r.st) EXCEPT !.ret = 0]

\* a len() that gives up the error and returns 0
len_Swallowing(s, ok, e) ==
    LET r == PyObject_Length(s, ok, e)
    IN  IF r.result < 0 THEN [PyErr_Clear(r.st) EXCEPT !.ret = 0]
        ELSE [r.st EXCEPT !.ret = r.result]

\* size_t len(handle h)
len(s, ok, e) ==
    LET r == PyObject_Length(s, ok, e)
    IN  IF r.result < 0 THEN pybind11_fail(r.st)
        ELSE [r.st EXCEPT !.ret = r.result]

\* size_t len_hint(handle h)
len_hint(s, ok, e) ==
    LET r == PyObject_LengthHint(s, ok, e)
    IN  IF r.result < 0 THEN [PyErr_Clear(r.st) EXCEPT !.ret = 0]
        ELSE [r.st EXCEPT !.ret = r.result]

\* str repr(handle h), with PY_MAJOR_VERSION >= 3
repr(s, o, ok, e) == steal_or_throw(PyObject_Repr(s, o, ok, e))

\* iterator iter(handle obj)
iter(s, o, ok, e) == steal_or_throw(PyObject_GetIter(s, o, ok, e))

Builtins == {"isinstance", "delattr", "hash", "len", "len_hint", "repr", "iter",
             "PyIterable_Check"}

builtin_call(f, s, k, o, ok, e) ==
    CASE f = "isinstance" -> isinstance(s, ok, e)
      [] f = "delattr" -> delattr(s, k, ok, e)
      [] f = "hash" -> hash(s, ok, e)
      [] f = "len" -> len(s, ok, e)
      [] f = "len_hint" -> len_hint(s, ok, e)
      [] f = "repr" -> repr(s, o, ok, e)
      [] f = "iter" -> iter(s, o, ok, e)
      [] f = "PyIterable_Check" -> PyIterable_Check(s, o, ok, e)

\* ------------------------------------------------------- constructors of the types
\* the constructors that test the pointer the allocation returned:
\*   if (!m_ptr) pybind11_fail("Could not allocate ... object!");
CheckedCtors ==
    {"str(const char *, size_t)", "str(const char *)",
     "bytes(const char *)", "bytes(const char *, size_t)",
     "float_(float)", "float_(double)", "weakref(handle, handle)",
     "slice(ssize_t, ssize_t, ssize_t)",
     "capsule(const void *, const char *, void (*)(PyObject *))",
     "capsule(const void *, void (*)(PyObject *))",
     "capsule(const void *, void (*)(void *))", "capsule(void (*)())",
     "tuple(size_t)", "dict()", "list(size_t)", "set()",
     "memoryview(const buffer_info &)"}
\* the constructors that keep the pointer as it is:
\*   int_() : object(PyLong_FromLong(0), stolen_t{}) { }
\*   str(handle h) : object(raw_str(h.ptr()), stolen_t{}) { }
UncheckedCtors == {"int_()", "str(handle)"}
Ctors == CheckedCtors \cup UncheckedCtors

\* T::T(...): the allocation call of the runtime, the pointer stolen into the new
\* Owning Reference, and the test of the pointer where the constructor has one
construct(type, s, o, ok, e) ==
    LET r  == NewObject(s, o, ok, e)
        s1 == object_stolen(r.st, "result", r.result)
    IN  IF type \in CheckedCtors
        THEN IF s1.ptr["result"] = Null THEN pybind11_fail(s1) ELSE s1
        ELSE s1

\* ------------------------------------------------------- the accessor machine
\* errors the runtime raises: a type object and, possibly, a value object
AccErrors == {[type |-> t, value |-> v, tb |-> Null] : t \in Obj, v \in Ptr}
AnError == CHOOSE x \in AccErrors : TRUE

AOp(name, p, k, val, e, t) ==
    [op |-> name, policy |-> p, key |-> k, val |-> val, raised |-> e,
     threw |-> t.threw, winc |-> t.winc, old |-> IF k \in Keys THEN items[k] ELSE Null,
     fail |-> t.fail, ret |-> t.ret]

\* how many of the owner's entries hold object o
InItems(it, o) == Cardinality({k \in Keys : it[k] = o})
\* how many of the indicator's three references go to object o
InErr(e, o) == Cardinality({f \in {"type", "value", "tb"} : e[f] = o})

\* The caller holds one reference to every object; the owner holds one for every
\* entry, the indicator one for every object it names.
AccHeld(it, e) == [o \in Obj |-> 1 + InItems(it, o) + InErr(e, o)]

AccInit ==
    /\ RegStart /\ glibcxx = FALSE
    /\ PyIdle
    /\ items \in [Keys -> Ptr]
    /\ cnt0 = AccHeld(items, NoErr)
    /\ refcnt = cnt0
    /\ held = cnt0
    /\ incs = [o \in Obj |-> 0]
    /\ decs = [o \in Obj |-> 0]
    /\ m_ptr = [k \in AccSlots |-> Null]
    /\ live = {}
    /\ fault = FALSE
    /\ last = [op |-> "init", policy |-> "none", key |-> "none", val |-> Null,
               raised |-> NoErr, threw |-> FALSE, winc |-> 0, old |-> Null,
               fail |-> FALSE, ret |-> 0]
    /\ before = cnt0
    /\ mid = <<>>
    /\ nops = 0
    /\ err = NoErr
    /\ err0 = NoErr
    /\ nraises = 0
    /\ thrown = NoFault
    /\ pending = NoPending

ACommit(t, liveNew, op) ==
    /\ nops' = nops + 1
    /\ refcnt' = t.cnt
    /\ incs' = t.incs
    /\ decs' = t.decs
    /\ m_ptr' = t.ptr
    /\ fault' = t.fault
    /\ err' = t.err
    /\ items' = t.items
    /\ live' = liveNew
    /\ held' = AccHeld(t.items, t.err)
    /\ last' = op
    /\ before' = refcnt
    /\ err0' = err
    /\ UNCHANGED <<cnt0, mid, nraises, excVars, regVars, pyVars>>

\* policy::get(owner, key) on an owner in any state; e is what the runtime raises
\* when the call fails
AccGet ==
    /\ last.op = "init"
    /\ \E p \in Policies, k \in Keys, ok \in BOOLEAN :
        \E e \in IF ok /\ items[k] /= Null THEN {AnError} ELSE AccErrors :
            LET t == policy_get(p, ACur, k, ok, e)
            IN  ACommit(t, IF t.threw THEN Slots ELSE {"result"},
                        AOp("get", p, k, Null, IF t.threw THEN e ELSE NoErr, t))

\* policy::set(owner, key, val)
AccSet ==
    /\ last.op = "init"
    /\ \E p \in Policies, k \in Keys, val \in Obj, ok \in BOOLEAN :
        \E e \in IF ok THEN {AnError} ELSE AccErrors :
            LET t == policy_set(p, ACur, k, val, ok, e)
            IN  ACommit(t, IF t.threw THEN Slots ELSE {},
                        AOp("set", p, k, val, IF t.threw THEN e ELSE NoErr, t))

\* the Owning Reference a get returned goes out of scope
AccDrop ==
    /\ "result" \in live
    /\ LET t == object_dtor(ACur, "result")
       IN  ACommit([t EXCEPT !.ptr["result"] = Null], live \ {"result"},
                   AOp("drop", last.policy, last.key, m_ptr["result"], NoErr, t))

\* the caught error_already_set goes out of scope
AccDiscard ==
    /\ Slots \subseteq live
    /\ LET t == error_already_set_dtor(ACur)
       IN  ACommit([t EXCEPT !.ptr = [k \in AccSlots |-> IF k \in Slots THEN Null
                                                        ELSE m_ptr[k]]],
                   live \ Slots, AOp("discard", "none", "none", Null, NoErr, t))

\* getattr(owner, key, default_), with the name as an object or as a C string
AccGetDefault ==
    /\ last.op = "init"
    /\ \E p \in {"obj_attr", "str_attr"}, k \in Keys, default_ \in Ptr, ok \in BOOLEAN :
        \E e \in IF ok /\ items[k] /= Null THEN {AnError} ELSE AccErrors :
            LET t == IF p = "obj_attr" THEN getattr_default(ACur, k, default_, ok, e)
                     ELSE getattr_str_default(ACur, k, default_, ok, e)
            IN  ACommit(t, {"result"},
                        AOp("getattr_default", p, k, default_,
                            IF ok /\ items[k] /= Null THEN NoErr ELSE e, t))

\* one of the python_builtins functions, called on the owner
AccBuiltin ==
    /\ last.op = "init"
    /\ \E f \in Builtins, k \in Keys, o \in Obj, ok \in BOOLEAN :
        \E e \in IF ok THEN {AnError} ELSE AccErrors :
            LET t == builtin_call(f, ACur, k, o, ok, e)
                failed == IF f = "delattr" THEN ~(ok /\ items[k] /= Null) ELSE ~ok
            IN  ACommit(t, IF t.threw THEN Slots
                           ELSE IF f \in {"repr", "iter"} THEN {"result"} ELSE {},
                        AOp("builtin", f, k, o, IF failed THEN e ELSE NoErr, t))

\* a constructor of one of the types; o is the object the runtime allocates
AccConstruct ==
    /\ last.op = "init"
    /\ \E type \in Ctors, o \in Obj, ok \in BOOLEAN :
        \E e \in IF ok THEN {AnError} ELSE AccErrors :
            LET t == construct(type, ACur, o, ok, e)
            IN  ACommit(t, IF t.fail THEN {} ELSE {"result"},
                        AOp("construct", type, "none", o, IF ok THEN NoErr ELSE e, t))

AccNext ==
    \/ AccGet
    \/ AccSet
    \/ AccGetDefault
    \/ AccBuiltin
    \/ AccConstruct
    \/ AccDrop
    \/ AccDiscard

SpecAcc == AccInit /\ [][AccNext]_vars


\* ------------------------------------------------------- iterator
\* An `iterator` value: m_ptr tells whether it wraps a runtime iterator, value names
\* the slot of its cached element.
TheIterator == [m_ptr |-> TRUE, value |-> "value"]
\* iterator::sentinel() { return {}; }
sentinel == [m_ptr |-> FALSE, value |-> "end"]

IterSlots == Slots \cup {"value", "tmp", "end"}

\* The part of the state the iterator's member functions read and write.
ICur == [cnt |-> refcnt, incs |-> incs, decs |-> decs, ptr |-> m_ptr, fault |-> fault,
         err |-> err, rest |-> rest, bad |-> bad, calls |-> calls, threw |-> FALSE]

\* PyIter_Next(o): a new reference to the next element; NULL without an error when
\* there is none; NULL with the error e set when the iterator's step fails (the
\* iterator is finished after that).
PyIter_Next(s, e) ==
    LET s0 == [s EXCEPT !.calls = @ + 1]
    IN  IF s.rest /= <<>>
        THEN [st |-> [Py_XINCREF(s0, Head(s.rest)) EXCEPT !.rest = Tail(s.rest)],
              result |-> Head(s.rest)]
        ELSE IF s.bad
        THEN [st |-> [RuntimeFails(s0, e) EXCEPT !.bad = FALSE], result |-> Null]
        ELSE [st |-> s0, result |-> Null]

PyErr_Occurred(s) == s.err.type /= Null

\* an advance() that keeps the cached element when the runtime returns NULL
iterator_advance_KeepsValue(s, w, e) ==
    LET r  == PyIter_Next(s, e)
        s1 == object_stolen(r.st, "tmp", r.result)
        s2 == IF r.result = Null THEN s1 ELSE object_move_assign(s1, w.value, "tmp")
    IN  IF PyErr_Occurred(s2) THEN throw_error_already_set(s2) ELSE s2

\* an advance() without the PyErr_Occurred() test
iterator_advance_NoCheck(s, w, e) ==
    LET r  == PyIter_Next(s, e)
        s1 == object_stolen(r.st, "tmp", r.result)
    IN  object_move_assign(s1, w.value, "tmp")

\* void iterator::advance() {
\*     value = reinterpret_steal<object>(PyIter_Next(m_ptr));
\*     if (PyErr_Occurred()) { throw error_already_set(); } }
iterator_advance(s, w, e) ==
    LET r  == PyIter_Next(s, e)
        s1 == object_stolen(r.st, "tmp", r.result)
        s2 == object_move_assign(s1, w.value, "tmp")
    IN  IF PyErr_Occurred(s2) THEN throw_error_already_set(s2) ELSE s2

\* iterator& operator++() { advance(); return *this; }
iterator_preinc(s, w, e) == iterator_advance(s, w, e)

\* an operator*() that advances on every call
iterator_deref_Always(s, w, e) ==
    IF w.m_ptr THEN iterator_advance(s, w, e) ELSE s

\* reference operator*() const {
\*     if (m_ptr && !value.ptr()) { self.advance(); }
\*     return value; }
iterator_deref(s, w, e) ==
    IF w.m_ptr /\ s.ptr[w.value] = Null THEN iterator_advance(s, w, e) ELSE s

\* pointer operator->() const { operator*(); return &value; }
iterator_arrow(s, w, e) == iterator_deref(s, w, e)

\* operator== : a->ptr() == b->ptr()
iterator_eq(s, a, b, e) ==
    LET s1 == iterator_arrow(s, a, e)
        s2 == IF s1.threw THEN s1 ELSE iterator_arrow(s1, b, e)
    IN  [st |-> s2, ret |-> s2.ptr[a.value] = s2.ptr[b.value]]

\* an operator!= that compares the cached pointers without operator->
iterator_ne_NoArrow(s, a, b, e) ==
    [st |-> s, ret |-> s.ptr[a.value] /= s.ptr[b.value]]

\* operator!= : a->ptr() != b->ptr()
iterator_ne(s, a, b, e) ==
    LET s1 == iterator_arrow(s, a, e)
        s2 == IF s1.threw THEN s1 ELSE iterator_arrow(s1, b, e)
    IN  [st |-> s2, ret |-> s2.ptr[a.value] /= s2.ptr[b.value]]

\* ------------------------------------------------------- the iterator machine
MaxLen == 3         \* elements of the underlying iterator
MaxIterOps == 4     \* iterator operations per behaviour

\* the sequences over S of length at most n
SeqUpTo(S, n) == UNION {[1..k -> S] : k \in 0..n}

\* how many of the sequence's elements are object o
InSeq(q, o) == Cardinality({i \in 1..Len(q) : q[i] = o})

\* The caller holds one reference to every object, the iterated container one for
\* every element, the indicator one for every object it names.
IterHeld(q, e) == [o \in Obj |-> 1 + InSeq(q, o) + InErr(e, o)]

IOp(name, ret, eq, e, t) ==
    [op |-> name, ret |-> ret, eq |-> eq, raised |-> e, threw |-> t.threw,
     n |-> t.calls - calls]

\* iter(obj) has returned the iterator; nothing has been asked of it
IterStart ==
    /\ RegStart /\ glibcxx = FALSE /\ items = [k \in Keys |-> Null]
    /\ OptIdle /\ DictIdle /\ GuardIdle
    /\ src0 \in SeqUpTo(Obj, MaxLen)
    /\ rest = src0
    /\ used = <<>>
    /\ calls = 0
    /\ cnt0 = IterHeld(src0, NoErr)
    /\ refcnt = cnt0
    /\ held = cnt0
    /\ incs = [o \in Obj |-> 0]
    /\ decs = [o \in Obj |-> 0]
    /\ m_ptr = [k \in IterSlots |-> Null]
    /\ live = {"value"}
    /\ fault = FALSE
    /\ last = [op |-> "init", ret |-> Null, eq |-> FALSE, raised |-> NoErr,
               threw |-> FALSE, n |-> 0]
    /\ before = cnt0
    /\ mid = <<>>
    /\ nops = 0
    /\ err = NoErr
    /\ err0 = NoErr
    /\ nraises = 0
    /\ thrown = NoFault
    /\ pending = NoPending

IterInit == IterStart /\ bad \in BOOLEAN /\ lpc = "idle"

ICommit(t, liveNew, op) ==
    /\ nops' = nops + 1
    /\ refcnt' = t.cnt
    /\ incs' = t.incs
    /\ decs' = t.decs
    /\ m_ptr' = t.ptr
    /\ fault' = t.fault
    /\ err' = t.err
    /\ rest' = t.rest
    /\ bad' = t.bad
    /\ calls' = t.calls
    /\ live' = liveNew
    /\ held' = IterHeld(src0, t.err)
    /\ last' = op
    /\ before' = refcnt
    /\ err0' = err
    /\ UNCHANGED <<cnt0, mid, nraises, src0, excVars, regVars, accVars, optVars, dictVars,
                   guardVars>>

\* the errors a call of PyIter_Next can end with in state s
StepErrors == IF rest = <<>> /\ bad THEN AccErrors ELSE {AnError}

IterReady == nops < MaxIterOps /\ live \cap Slots = {}

\* ++it
IterAdvance ==
    /\ IterReady
    /\ \E e \in StepErrors :
        LET t == iterator_preinc(ICur, TheIterator, e)
        IN  ICommit(t, IF t.threw THEN live \cup Slots ELSE live,
                    IOp("advance", t.ptr["value"], FALSE, IF t.threw THEN e ELSE NoErr, t))
    /\ UNCHANGED <<used, lpc>>

\* *it
IterDeref ==
    /\ IterReady
    /\ \E e \in StepErrors :
        LET t == iterator_deref(ICur, TheIterator, e)
        IN  ICommit(t, IF t.threw THEN live \cup Slots ELSE live,
                    IOp("deref", t.ptr["value"], FALSE, IF t.threw THEN e ELSE NoErr, t))
    /\ UNCHANGED <<used, lpc>>

\* it == iterator::sentinel()
IterEqual ==
    /\ IterReady
    /\ \E e \in StepErrors :
        LET r == iterator_eq(ICur, TheIterator, sentinel, e)
        IN  ICommit(r.st, IF r.st.threw THEN live \cup Slots ELSE live,
                    IOp("eq", r.st.ptr["value"], r.ret /\ ~r.st.threw,
                              IF r.st.threw THEN e ELSE NoErr, r.st))
    /\ UNCHANGED <<used, lpc>>

\* the caught error_already_set goes out of scope
IterDiscard ==
    /\ Slots \subseteq live
    /\ LET t == error_already_set_dtor(ICur)
       IN  ICommit([t EXCEPT !.ptr = [k \in IterSlots |-> IF k \in Slots THEN Null
                                                        ELSE m_ptr[k]]],
                   live \ Slots, IOp("discard", m_ptr["value"], FALSE, NoErr, t))
    /\ UNCHANGED <<used, lpc>>

IterNext ==
    \/ IterAdvance
    \/ IterDeref
    \/ IterEqual
    \/ IterDiscard

SpecIter == IterInit /\ [][IterNext]_vars


\* ------------------------------------------------------- the iteration loop
\* while (it != iterator::sentinel()) { use(*it); ++it; }
\* on a fresh iterator whose underlying iterator raises no error
LoopInit == IterStart /\ bad = FALSE /\ lpc = "test"

\* it != iterator::sentinel()
LoopTest ==
    /\ lpc = "test"
    /\ LET r == iterator_ne(ICur, TheIterator, sentinel, AnError)
       IN  /\ ICommit(r.st, live, IOp("ne", r.st.ptr["value"], ~r.ret, NoErr, r.st))
           /\ lpc' = IF r.ret THEN "use" ELSE "done"
    /\ UNCHANGED used

\* use(*it)
LoopUse ==
    /\ lpc = "use"
    /\ LET t == iterator_deref(ICur, TheIterator, AnError)
       IN  /\ ICommit(t, live, IOp("deref", t.ptr["value"], FALSE, NoErr, t))
           /\ used' = Append(used, t.ptr["value"])
    /\ lpc' = "inc"

\* ++it
LoopInc ==
    /\ lpc = "inc"
    /\ LET t == iterator_preinc(ICur, TheIterator, AnError)
       IN  ICommit(t, live, IOp("advance", t.ptr["value"], FALSE, NoErr, t))
    /\ lpc' = "test"
    /\ UNCHANGED used

LoopNext ==
    \/ LoopTest
    \/ LoopUse
    \/ LoopInc

\* the loop is a sequential program: it keeps taking its next step
SpecLoop == LoopInit /\ [][LoopNext]_vars /\ WF_vars(LoopNext)


\* ------------------------------------------------------- options
Flags == {"show_user_defined_docstrings", "show_function_signatures"}

\* an options constructor that remembers the defaults instead of the current state
options_ctor_Defaults(g) ==
    [show_user_defined_docstrings |-> TRUE, show_function_signatures |-> TRUE]

\* options() : previous_state(global_state()) {}   -- the value of previous_state
options_ctor(g) == g

\* ~options() { global_state() = previous_state; }   -- the new global state
options_dtor(g, previous_state) == previous_state

disable_user_defined_docstrings(g) == [g EXCEPT !.show_user_defined_docstrings = FALSE]
enable_user_defined_docstrings(g) == [g EXCEPT !.show_user_defined_docstrings = TRUE]
disable_function_signatures(g) == [g EXCEPT !.show_function_signatures = FALSE]
enable_function_signatures(g) == [g EXCEPT !.show_function_signatures = TRUE]

show_user_defined_docstrings(g) == g.show_user_defined_docstrings
show_function_signatures(g) == g.show_function_signatures

Setters == {"disable_user_defined_docstrings", "enable_user_defined_docstrings",
            "disable_function_signatures", "enable_function_signatures"}

options_set(f, g) ==
    CASE f = "disable_user_defined_docstrings" -> disable_user_defined_docstrings(g)
      [] f = "enable_user_defined_docstrings" -> enable_user_defined_docstrings(g)
      [] f = "disable_function_signatures" -> disable_function_signatures(g)
      [] f = "enable_function_signatures" -> enable_function_signatures(g)

options_get(f, g) ==
    CASE f = "show_user_defined_docstrings" -> show_user_defined_docstrings(g)
      [] f = "show_function_signatures" -> show_function_signatures(g)

\* ------------------------------------------------------- the options machine
MaxScopes == 2      \* `options` values alive at a time

\* no Owning Reference, no error, no fault in flight
RefIdle ==
    /\ cnt0 = [o \in Obj |-> 1]
    /\ refcnt = cnt0
    /\ held = cnt0
    /\ incs = [o \in Obj |-> 0]
    /\ decs = [o \in Obj |-> 0]
    /\ m_ptr = [r \in Ref |-> Null]
    /\ live = {}
    /\ fault = FALSE
    /\ before = cnt0
    /\ mid = <<>>
    /\ nops = 0
    /\ err = NoErr
    /\ err0 = NoErr
    /\ nraises = 0
    /\ thrown = NoFault
    /\ pending = NoPending

OOp(name, f, i, ret) == [op |-> name, f |-> f, i |-> i, ret |-> ret]

\* the settings are whatever earlier code left; no `options` value is alive
OptInit ==
    /\ RegStart /\ glibcxx = FALSE /\ items = [k \in Keys |-> Null]
    /\ IterIdle /\ DictIdle /\ GuardIdle /\ RefIdle
    /\ global_state \in [Flags -> BOOLEAN]
    /\ scopes = <<>>
    /\ last = OOp("init", "none", 0, FALSE)

OptFrame ==
    UNCHANGED <<refcnt, cnt0, incs, decs, held, m_ptr, live, fault, before, mid, nops,
                errVars, excVars, regVars, accVars, iterVars, dictVars, guardVars>>

\* `options o;` : seen is the global state the constructor found
OptCtor ==
    /\ Len(scopes) < MaxScopes
    /\ scopes' = Append(scopes, [previous_state |-> options_ctor(global_state),
                                 seen |-> global_state])
    /\ global_state' = global_state
    /\ last' = OOp("ctor", "none", Len(scopes) + 1, FALSE)
    /\ OptFrame

\* o.disable_...() / o.enable_...() on a live `options` value
OptSet ==
    /\ scopes /= <<>>
    /\ \E f \in Setters :
        /\ global_state' = options_set(f, global_state)
        /\ last' = OOp("set", f, 0, FALSE)
    /\ scopes' = scopes
    /\ OptFrame

\* options::show_...()
OptGet ==
    /\ \E f \in Flags :
        last' = OOp("get", f, 0, options_get(f, global_state))
    /\ UNCHANGED <<global_state, scopes>>
    /\ OptFrame

\* the i-th `options` value is destroyed (the innermost one when scopes nest)
OptDtor ==
    /\ \E i \in 1..Len(scopes) :
        /\ global_state' = options_dtor(global_state, scopes[i].previous_state)
        /\ scopes' = SubSeq(scopes, 1, i - 1) \o SubSeq(scopes, i + 1, Len(scopes))
        /\ last' = OOp("dtor", "none", i, FALSE)
    /\ OptFrame

OptNext ==
    \/ OptCtor
    \/ OptSet
    \/ OptGet
    \/ OptDtor

SpecOpt == OptInit /\ [][OptNext]_vars


\* ------------------------------------------------------- dict_readonly
TableSize == 3      \* slots of the mapping's hash table

Unused == [key |-> Null, value |-> Null]

\* PyDict_Next(obj, &pos, &key, &value): from slot pos on, the first slot in use;
\* it returns 0 and writes nothing when pos is negative or no such slot is left
PyDict_Next(t, pos, key, value) ==
    LET after == {i \in 0..(Len(t) - 1) : i >= pos /\ t[i + 1] /= Unused}
    IN  IF pos < 0 \/ after = {}
        THEN [ret |-> 0, pos |-> pos, key |-> key, value |-> value]
        ELSE LET i == CHOOSE j \in after : \A q \in after : j <= q
             IN  [ret |-> 1, pos |-> i + 1, key |-> t[i + 1].key,
                  value |-> t[i + 1].value]

\* an increment() that leaves pos where PyDict_Next left it
dict_readonly_increment_KeepsPos(t, d) ==
    LET r == PyDict_Next(t, d.pos, d.key, d.value)
    IN  [pos |-> r.pos, key |-> r.key, value |-> r.value]

\* void increment() { if (!PyDict_Next(obj.ptr(), &pos, &key, &value)) { pos = -1; } }
dict_readonly_increment(t, d) ==
    LET r == PyDict_Next(t, d.pos, d.key, d.value)
    IN  [pos |-> IF r.ret = 0 THEN -1 ELSE r.pos, key |-> r.key, value |-> r.value]

\* dict_readonly(handle obj, ssize_t pos) : obj(obj), pos(pos) { increment(); }
dict_readonly_ctor(t, pos) ==
    dict_readonly_increment(t, [pos |-> pos, key |-> Null, value |-> Null])

\* reference dereference() const { return {key, value}; }
dict_readonly_dereference(d) == [key |-> d.key, value |-> d.value]

\* bool equal(const dict_readonly &b) const { return pos == b.pos; }
dict_readonly_equal(a, b) == a.pos = b.pos

\* detail::dict_iterator dict::begin() const { return {*this, 0}; }
dict_begin(t) == dict_readonly_ctor(t, 0)

\* detail::dict_iterator dict::end() const { return {}; }  -- the default pos is -1
dict_end == [pos |-> -1, key |-> Null, value |-> Null]

\* ------------------------------------------------------- the mapping traversal
\* for (auto it = d.begin(); it != d.end(); ++it) yield(*it);  and further
\* increments once the end is reached
Tables ==
    {t \in [1..TableSize -> {Unused} \cup [key : Obj, value : Obj]] :
        \A i, j \in 1..TableSize :
            (i /= j /\ t[i] /= Unused /\ t[j] /= Unused) => t[i].key /= t[j].key}

\* the entries of the mapping, in the order of the table
Entries(t) == SelectSeq(t, LAMBDA x : x /= Unused)

DOp(name) == [op |-> name]

DictInit ==
    /\ RegStart /\ glibcxx = FALSE /\ items = [k \in Keys |-> Null]
    /\ IterIdle /\ OptIdle /\ GuardIdle /\ RefIdle
    /\ table \in Tables
    /\ dict_it = dict_end
    /\ yielded = <<>>
    /\ last = DOp("init")

DictFrame ==
    UNCHANGED <<refcnt, cnt0, incs, decs, held, m_ptr, live, fault, before, mid, nops,
                errVars, excVars, regVars, accVars, iterVars, optVars, guardVars,
                table>>

AtEnd == dict_readonly_equal(dict_it, dict_end)

\* it = d.begin()
DictBegin ==
    /\ last.op = "init"
    /\ dict_it' = dict_begin(table)
    /\ last' = DOp("begin")
    /\ UNCHANGED yielded
    /\ DictFrame

\* it != d.end() holds: yield(*it)
DictUse ==
    /\ last.op \in {"begin", "inc"}
    /\ ~AtEnd
    /\ Len(yielded) <= TableSize
    /\ yielded' = Append(yielded, dict_readonly_dereference(dict_it))
    /\ last' = DOp("use")
    /\ UNCHANGED dict_it
    /\ DictFrame

\* ++it, in the loop or once the end is reached
DictInc ==
    /\ last.op = "use" \/ (last.op \in {"begin", "inc"} /\ AtEnd)
    /\ dict_it' = dict_readonly_increment(table, dict_it)
    /\ last' = DOp("inc")
    /\ UNCHANGED yielded
    /\ DictFrame

DictNext ==
    \/ DictBegin
    \/ DictUse
    \/ DictInc

\* the traversal is a sequential program: it keeps taking its next step
SpecDict == DictInit /\ [][DictNext]_vars /\ WF_vars(DictNext)


\* ------------------------------------------------------- scoped_interpreter
\* a guard that is alive; is_valid starts as its member initializer sets it
NewGuard == [life |-> "alive", is_valid |-> TRUE]

\* void finalize_interpreter(), called by the embedder's thread: the registry is
\* looked up, the interpreter is finalized, the registry found is deleted
finalize_interpreter(s) ==
    finalize_delete(Py_Finalize(s), finalize_lookup(s, Embedder))

\* scoped_interpreter(bool init_signal_handlers) { initialize_interpreter(...); }
\* when initialize_interpreter throws, no guard comes to exist
scoped_interpreter_ctor(gs, g, s, initialized) ==
    LET r == initialize_interpreter(s, initialized)
    IN  [st |-> r.st, path |-> r.path,
         guards |-> IF r.path = "fail" THEN gs ELSE [gs EXCEPT ![g] = NewGuard]]

\* scoped_interpreter(scoped_interpreter &&other) noexcept { other.is_valid = false; }
scoped_interpreter_move(gs, g, other) ==
    [gs EXCEPT ![g] = NewGuard, ![other].is_valid = FALSE]

\* ~scoped_interpreter() { if (is_valid) finalize_interpreter(); }
scoped_interpreter_dtor(gs, g, s) ==
    LET gone == [gs EXCEPT ![g].life = "gone"]
    IN  IF gs[g].is_valid
        THEN [st |-> finalize_interpreter(s), finalized |-> TRUE,
              guards |-> gone]
        ELSE [st |-> s, finalized |-> FALSE, guards |-> gone]

\* ------------------------------------------------------- the guard machine
GOp(name, g, other, path, finalized) ==
    [op |-> name, g |-> g, other |-> other, path |-> path, finalized |-> finalized]

GuardInit ==
    /\ RegStart /\ glibcxx = FALSE /\ items = [k \in Keys |-> Null]
    /\ IterIdle /\ OptIdle /\ DictIdle /\ RefIdle
    /\ guards = [g \in Guard |-> Unborn]
    /\ finals = 0
    /\ last = GOp("init", 0, 0, "none", FALSE)

GCommit(t, op) ==
    /\ internals_pp' = t.pp
    /\ internals_ptr' = t.ptr
    /\ builtins' = t.builtins
    /\ deletes' = t.deletes
    /\ fault' = t.fault
    /\ last' = op
    /\ UNCHANGED <<refcnt, cnt0, incs, decs, held, m_ptr, live, before, mid, nops,
                   errVars, excVars, translators, reglog, born, allocated, finalizing,
                   gil, pc, glibcxx, first, shared_data, lastset, accVars, iterVars,
                   optVars, dictVars>>

\* the next guard that was never constructed
NextGuard == CHOOSE g \in Guard : guards[g].life = "unborn" /\
                 \A q \in Guard : guards[q].life = "unborn" => g <= q

\* scoped_interpreter g{};
GuardCtor ==
    /\ \E g \in Guard : guards[g].life = "unborn"
    /\ running \/ run < MaxRuns
    /\ LET r == scoped_interpreter_ctor(guards, NextGuard, RCur, running)
       IN  /\ guards' = r.guards
           /\ running' = (running \/ r.path = "none")
           /\ run' = IF r.path = "none" THEN run + 1 ELSE run
           /\ GCommit(r.st, GOp("ctor", NextGuard, 0, r.path, FALSE))
    /\ UNCHANGED finals

\* scoped_interpreter g{std::move(other)};  other is alive, moved from or not
GuardMove ==
    /\ \E g \in Guard : guards[g].life = "unborn"
    /\ \E other \in Guard :
        /\ guards[other].life = "alive"
        /\ guards' = scoped_interpreter_move(guards, NextGuard, other)
        /\ GCommit(RCur, GOp("move", NextGuard, other, "none", FALSE))
    /\ UNCHANGED <<finals, running, run>>

\* g goes out of scope
GuardDtor ==
    /\ \E g \in Guard :
        /\ guards[g].life = "alive"
        /\ LET r == scoped_interpreter_dtor(guards, g, RCur)
           IN  /\ guards' = r.guards
               /\ finals' = IF r.finalized THEN finals + 1 ELSE finals
               /\ running' = (running /\ ~r.finalized)
               /\ GCommit(r.st, GOp("dtor", g, 0, "none", r.finalized))
    /\ UNCHANGED run

GuardNext ==
    \/ GuardCtor
    \/ GuardMove
    \/ GuardDtor

SpecGuard == GuardInit /\ [][GuardNext]_vars


\* ------------------------------------------------------- properties of the Owning Reference
\* Owning References that currently hold object o
Holders(o) == {r \in live : m_ptr[r] = o}

SameCounts == refcnt' = refcnt /\ incs' = incs /\ decs' = decs

C1_Conservation ==
    \A o \in Obj :
        /\ refcnt[o] = cnt0[o] + incs[o] - decs[o]
        /\ refcnt[o] = held[o] + Cardinality(Holders(o))

C1_StealThenDtor ==
    (last.op = "steal" /\ last'.op = "dtor" /\ last'.a = last.a)
        => /\ refcnt' = Moved(before, last.h, -1)
           /\ decs' = Moved(decs, last.h, 1)
           /\ incs' = incs

C1_BorrowThenDtor ==
    (last.op = "borrow" /\ last'.op = "dtor" /\ last'.a = last.a)
        => refcnt' = before

\* C1: after any sequence of Owning Reference operations every object's count is
\* its initial count plus the increments minus the decrements performed, and equals
\* the units held outside Owning References plus the number of live Owning
\* References holding the object; steal-construct then destroy decrements exactly
\* once, borrow-construct then destroy leaves the count as it was.
C1_RefCountBalance ==
    /\ []C1_Conservation
    /\ [][C1_StealThenDtor /\ C1_BorrowThenDtor]_vars

C1_Witness ==
    /\ last.op = "dtor"
    /\ last.h /= Null
    /\ incs[last.h] >= 1
    /\ Cardinality(Holders(last.h)) >= 1

C2_Step ==
    last'.op = "copy_assign" =>
        LET a  == last'.a
            b  == last'.b
            pa == m_ptr[a]
            pb == m_ptr[b]
        IN  /\ Len(mid') = 2
            /\ mid'[1] = Moved(refcnt, pb, 1)
            /\ (pa = pb /\ pa /= Null /\ refcnt[pa] >= 1) =>
                   /\ \A i \in 1..Len(mid') : mid'[i][pa] >= 1
                   /\ refcnt' = refcnt
            /\ (pa /= pb) =>
                   /\ refcnt' = Moved(Moved(refcnt, pa, -1), pb, 1)
                   /\ m_ptr'[a] = pb
            /\ m_ptr'[b] = pb
            /\ fault' = fault

\* C2: a = b increments b's object before it decrements a's old object; with the
\* same object on both sides (a = a included) the count never reaches zero on the
\* way and ends where it started; with different objects the old one loses one,
\* the new one gains one, and b is unchanged.
C2_CopyAssign == [][C2_Step]_vars

C2_Witness ==
    /\ last.op = "copy_assign"
    /\ last.a = last.b
    /\ m_ptr[last.a] /= Null
    /\ refcnt[m_ptr[last.a]] = 1

C3_Step ==
    last'.op = "move" =>
        /\ SameCounts
        /\ m_ptr'[last'.a] = m_ptr[last'.b]
        /\ m_ptr'[last'.b] = Null

\* C3: move construction performs no increment and no decrement; the new reference
\* holds the source's former pointer, the source holds null, all counts are unchanged.
C3_MoveCtor == [][C3_Step]_vars

C3_Witness == last.op = "move" /\ m_ptr[last.a] /= Null

\* The claim as stated: b's former object keeps its count whenever a and b are
\* different references.
C4_StepAsStated ==
    last'.op = "move_assign" =>
        LET a  == last'.a
            b  == last'.b
            pa == m_ptr[a]
            pb == m_ptr[b]
        IN  IF a = b
            THEN m_ptr' = m_ptr /\ SameCounts
            ELSE /\ decs' = Moved(decs, pa, 1)
                 /\ m_ptr'[a] = pb
                 /\ (pb /= Null => refcnt'[pb] = refcnt[pb])
                 /\ m_ptr'[b] = Null

\* C4 as stated: on a = move(b) with different references, a's previous object is
\* decremented once and the count of b's former pointer is unchanged.
C4_AsStated == [][C4_StepAsStated]_vars

C4_Step ==
    last'.op = "move_assign" =>
        LET a  == last'.a
            b  == last'.b
            pa == m_ptr[a]
            pb == m_ptr[b]
        IN  IF a = b
            THEN m_ptr' = m_ptr /\ SameCounts
            ELSE /\ decs' = Moved(decs, pa, 1)
                 /\ incs' = incs
                 /\ refcnt' = Moved(refcnt, pa, -1)
                 /\ m_ptr'[a] = pb
                 /\ (pb /= Null /\ pb /= pa => refcnt'[pb] = refcnt[pb])
                 /\ m_ptr'[b] = Null

\* C4 (amended): a = move(b) on one and the same reference changes nothing;
\* otherwise a's previous object is decremented exactly once, a holds b's former
\* pointer, which receives no increment (its count is unchanged unless it is also
\* a's previous object, which then drops by that one decrement), and b holds null.
C4_MoveAssign == [][C4_Step]_vars

C4_Witness ==
    /\ last.op = "move_assign"
    /\ last.a /= last.b
    /\ m_ptr[last.a] /= Null
    /\ before[m_ptr[last.a]] = refcnt[m_ptr[last.a]] + 1

C5_Step ==
    /\ last'.op = "release" =>
           /\ last'.ret = m_ptr[last'.a]
           /\ m_ptr'[last'.a] = Null
           /\ SameCounts
    /\ (last.op = "release" /\ last'.op = "dtor" /\ last'.a = last.a) =>
           SameCounts

\* C5: release() returns a handle to the object held, nulls the Owning Reference
\* and changes no count; destroying the released reference decrements nothing.
C5_Release == [][C5_Step]_vars

C5_Witness == last.op = "release" /\ last.ret /= Null /\ refcnt[last.ret] >= 1

\* The pointers an operation hands to inc_ref / dec_ref
IncArg(op) ==
    CASE op.op \in {"borrow", "inc_ref"} -> op.h
      [] op.op \in {"copy", "copy_assign"} -> m_ptr[op.b]
      [] OTHER -> Null
DecArg(op) ==
    CASE op.op = "dec_ref" -> op.h
      [] op.op = "dtor" -> m_ptr[op.a]
      [] op.op = "copy_assign" -> m_ptr[op.a]
      [] op.op = "move_assign" /\ op.a /= op.b -> m_ptr[op.a]
      [] OTHER -> Null

C6_Step ==
    /\ IncArg(last') = Null => incs' = incs
    /\ DecArg(last') = Null => decs' = decs
    /\ (IncArg(last') = Null /\ DecArg(last') = Null) => refcnt' = refcnt

\* C6: the reference-count helpers do nothing on a null pointer: inc_ref, dec_ref,
\* copy, move, assignment, release and destruction of a null Handle or Owning
\* Reference change no count, and no operation faults.
C6_NullNoOp == [](~fault) /\ [][C6_Step]_vars

C6_Witness ==
    /\ last.op = "copy_assign"
    /\ last.a /= last.b
    /\ m_ptr[last.a] = Null
    /\ m_ptr[last.b] = Null
    /\ refcnt = before
    /\ decs = [o \in Obj |-> 0]

\* ------------------------------------------------------- properties of the Error Bridge
Stored == [type |-> m_ptr["m_type"], value |-> m_ptr["m_value"], tb |-> m_ptr["m_trace"]]

C7_Step ==
    last'.op = "capture" =>
        /\ Stored' = err
        /\ err' = NoErr
        /\ SameCounts
        /\ err = NoErr => \A k \in Slots : m_ptr'[k] = Null

\* C7: constructing an error_already_set moves the runtime's error triple into the
\* three slots and leaves the indicator clear; with no error pending the three
\* slots are empty and the indicator stays clear.
C7_Capture == [][C7_Step]_vars

C7_Witness ==
    /\ last.op = "capture"
    /\ m_ptr["m_type"] /= Null
    /\ m_ptr["m_value"] /= Null
    /\ err = NoErr

C8_Step ==
    (last.op = "capture" /\ last'.op = "restore") =>
        /\ err' = err0
        /\ refcnt' = before

\* C8: capture followed directly by restore leaves the indicator holding the same
\* type, value and traceback objects as before the capture, and every count as it
\* was before the capture.
C8_RoundTrip == [][C8_Step]_vars

C8_Witness ==
    /\ last.op = "restore"
    /\ last.after = "capture"
    /\ err.type /= Null
    /\ err.value /= Null

\* The claim as stated: the second of two restore() calls changes nothing.
C9_StepAsStated ==
    /\ last'.op = "restore" =>
           /\ err' = Stored
           /\ Stored' = NoErr
    /\ (last.op = "restore" /\ last'.op = "restore") =>
           /\ err' = err
           /\ SameCounts

\* C9 as stated: restore() empties the value into the indicator, and a second
\* restore() leaves the indicator and all counts unchanged.
C9_AsStated == [][C9_StepAsStated]_vars

C9_Step ==
    /\ last'.op = "restore" =>
           /\ err' = Stored
           /\ Stored' = NoErr
           /\ incs' = incs
           /\ refcnt' = Moved3(refcnt, err, -1)
    /\ (last.op = "restore" /\ last'.op = "restore") =>
           /\ err' = NoErr
           /\ Stored' = NoErr
           /\ err = NoErr => SameCounts

\* C9 (amended): restore() hands the three slots to the indicator once and leaves
\* the value empty, the indicator first dropping what it held; a second restore()
\* hands over three nulls: it takes no count from the value again, but it clears
\* the indicator, dropping the error the first restore put there (one decrement for
\* each of its objects), and changes nothing only if the indicator was clear.
C9_Restore == [](\A o \in Obj : refcnt[o] = held[o] + Cardinality(Holders(o)))
              /\ [][C9_Step]_vars

C9_Witness ==
    /\ last.op = "restore"
    /\ last.after = "restore"
    /\ err0 /= NoErr
    /\ err = NoErr
    /\ refcnt /= before


\* ------------------------------------------------------- properties of translate_exception
Translated == last.op = "translate" /\ thrown.kind = "exc"

\* The table of the claim: one runtime error for each class of native fault.
C10_TableAsStated(p) ==
    CASE p.type = "error_already_set" -> p.held
      [] IsA(p.type, "bad_alloc") -> [type |-> "MemoryError", msg |-> p.what]
      [] IsA(p.type, "domain_error") \/ IsA(p.type, "invalid_argument")
            \/ IsA(p.type, "length_error") -> [type |-> "ValueError", msg |-> p.what]
      [] IsA(p.type, "out_of_range") -> [type |-> "IndexError", msg |-> p.what]
      [] IsA(p.type, "range_error") -> [type |-> "ValueError", msg |-> p.what]
      [] IsA(p.type, "exception") -> [type |-> "RuntimeError", msg |-> p.what]
      [] OTHER -> [type |-> "RuntimeError", msg |-> "Caught an unknown exception!"]

\* C10 as stated: every non-null fault leaves exactly the error of the table
\* above pending, any recognized fault outside the list giving runtime error.
C10_AsStated ==
    Translated =>
        /\ pending = C10_TableAsStated(thrown)
        /\ pending /= NoPending

C10_Table(p) ==
    IF p.type = "builtin_exception"
    THEN [type |-> p.cat, msg |-> p.what]
    ELSE C10_TableAsStated(p)

\* C10 (amended): the built-in translator maps each native fault to one runtime
\* error: a captured runtime error is restored as it is, and if it holds no error
\* none is pending afterwards; a built-in binding exception sets the error of its
\* own class; allocation failure gives memory error, domain, invalid-argument and
\* length faults value error, out-of-range index error, range fault value error,
\* any other standard fault runtime error with its message, anything else runtime
\* error with "Caught an unknown exception!"; for every non-null fault other than
\* an empty captured error exactly one error is pending on return.
C10_Translate ==
    Translated =>
        /\ pending = C10_Table(thrown)
        /\ ~(thrown.type = "error_already_set" /\ thrown.held = NoPending)
               => pending /= NoPending

C10_Witness ==
    /\ Translated
    /\ thrown.type = "error_already_set"
    /\ thrown.held = NoPending
    /\ pending = NoPending

\* ------------------------------------------------------- properties of the Internals Registry
\* a sequence back to front
Rev(q) == [i \in 1..Len(q) |-> q[Len(q) + 1 - i]]

\* C11: the translator chain of every registry lists its registrations most recent
\* first; the built-in translator seeded at creation is the last link and every
\* translator an adopting module added stands ahead of it.
C11_ChainOrder ==
    \A r \in Reg :
        /\ translators[r] = Rev(reglog[r])
        /\ \A i \in 1..Len(translators[r]) :
              translators[r][i].fn = "translate_exception" <=> i = Len(translators[r])

\* a module adopted a registry and its translator stands ahead of the built-in one
C11_Witness ==
    \E r \in Reg :
        /\ Len(translators[r]) >= 2
        /\ translators[r][1].fn = "translate_local_exception"
        /\ last.op = "get_internals" /\ last.path = "adopt"

\* how often a translator of module m occurs in chain q
Occurs(q, m) == Cardinality({i \in 1..Len(q) : q[i].mod = m})

\* modules a and b both made their first call in the same interpreter run and both
\* calls returned
BothFirst(a, b) ==
    /\ a /= b
    /\ first[a].done /\ first[b].done
    /\ first[a].ok /\ first[b].ok
    /\ first[a].run = first[b].run

LiveRegs == {r \in Reg : born[r] > 0 /\ deletes[r] = 0}

\* C13: at most one registry is live for the running interpreter, all modules
\* observe the same one, and a get_internals call that returns hands back a
\* registry that is not deleted and was created in the current interpreter run.
C13_OneLiveRegistry ==
    /\ running => Cardinality({r \in LiveRegs : born[r] = run}) <= 1
    /\ \A a \in Mod, b \in Mod :
          running /\ get_internals_hit(RCur, a) /\ get_internals_hit(RCur, b)
              => internals_ptr[internals_pp[a]] = internals_ptr[internals_pp[b]]
    /\ (last.op = "get_internals" /\ last.path /= "fail")
          => /\ last.ret \in LiveRegs
             /\ born[last.ret] = run

\* C14: no registry exists before the first get_internals call; once
\* finalize_interpreter has returned every registry ever created has been deleted
\* exactly once and every pointer cell reads null; no registry is deleted twice.
C14_DeletedOnce ==
    /\ (\A m \in Mod : ~first[m].done) => allocated = 0
    /\ \A r \in Reg : deletes[r] <= 1
    /\ ~running => /\ \A r \in Reg : born[r] > 0 => deletes[r] = 1
                   /\ \A c \in Cell : internals_ptr[c] = Null

\* C15: when the first interpreter run ends and every get_internals call so far
\* was made inside Py_Finalize (no module had a pointer and no capsule was
\* published when finalize_interpreter began), every registry those calls set up
\* is deleted and its pointer cell is null when finalize_interpreter returns.
C15_CreatedInFinalize ==
    (/\ last.op = "finalize_end"
     /\ run = 1
     /\ \A m \in Mod : first[m].done => first[m].inFinalize)
        => \A r \in Reg : translators[r] /= <<>> =>
              /\ deletes[r] = 1
              /\ \A c \in Cell : internals_ptr[c] /= r

C16_Step ==
    /\ (builtins = Other /\ last'.op = "get_internals" /\ last'.path /= "fast") =>
          /\ ~fault'
          /\ last'.path \in {"create", "fail"}
          /\ allocated' = allocated + 1
          /\ born[allocated'] = 0
          /\ last'.path = "create" =>
                /\ last'.ret = allocated'
                /\ builtins' = capsule(internals_pp'[last'.m])
                /\ internals_ptr'[builtins'.pp] = last'.ret
    /\ (builtins = Other /\ last'.op = "finalize_begin") =>
          finalizing'.internals_ptr_ptr = internals_pp[Embedder]

\* C16: with a value that is not a capsule under the key, get_internals does not
\* fault and does not adopt: it allocates a registry that did not exist before and,
\* when it returns, the key holds a capsule that leads to the registry returned;
\* finalize_interpreter falls back to its own module's pointer.
C16_NotACapsule == [][C16_Step]_vars

\* a call found a non-capsule value under the key and replaced it
C16_Witness ==
    /\ last.op = "get_internals" /\ last.path = "create" /\ last.key = "other"
    /\ builtins.kind = "capsule"

\* the thread a get_internals step runs on
Thread(m) == IF finalizing.active THEN Embedder ELSE m

\* C17 as stated: every step of get_internals, the test of the module's own
\* pointer included, runs while the calling thread holds the lock.
C17_StepAsStated ==
    last'.op \in {"check", "get_internals"} => gil = Thread(last'.m)

C17_AsStated == [][C17_StepAsStated]_vars

C17_Step ==
    /\ last'.op = "PyGILState_Ensure" => gil = 0 /\ gil' = last'.m
    /\ (last'.op = "get_internals" /\ last'.path /= "fast" /\ ~finalizing.active) =>
          /\ gil = last'.m
          /\ gil' = 0
    /\ (last'.op = "get_internals" /\ finalizing.active) =>
          /\ gil = Embedder
          /\ gil' = Embedder

\* C17: the test of the builtin slot, the allocation, the publication and the
\* seeding run while the calling thread holds the lock, and the lock get_internals
\* took is given back on every exit, the throw at the per-thread key included
\* (a nested acquisition leaves the caller's hold as it was).  The test of the
\* module's own pointer precedes the acquisition.
C17_LockHeld == [][C17_Step]_vars

\* a creation failed at the per-thread key and the lock is free again
C17_Witness ==
    /\ last.op = "get_internals" /\ last.path = "fail"
    /\ ~finalizing.active
    /\ gil = 0

\* ------------------------------------------------------- properties of the shared data
C18_Step ==
    /\ last'.op = "get_shared_data" =>
          /\ last'.ret = IF lastset[last'.name].set THEN lastset[last'.name].ptr ELSE Null
          /\ shared_data' = shared_data
    /\ last'.op = "set_shared_data" =>
          /\ last'.ret = last'.data
          /\ DOMAIN shared_data' = DOMAIN shared_data \cup {last'.name}
          /\ shared_data'[last'.name] = last'.data
          /\ \A n \in DOMAIN shared_data \ {last'.name} : shared_data'[n] = shared_data[n]

\* C18: get_shared_data(name) returns the pointer of the latest
\* set_shared_data(name, ptr), or null when the name was never set, and changes
\* nothing (it adds no entry for an absent name); set_shared_data returns the
\* pointer it stored and touches no other entry.
C18_SharedData == [][C18_Step]_vars

\* a name that was set reads back its pointer while a second name holds a different
\* pointer and a third is still absent
C18_Witness ==
    /\ last.op = "get_shared_data" /\ last.ret /= Null
    /\ lastset[last.name].set /\ last.ret = lastset[last.name].ptr
    /\ \E n \in Names : ~lastset[n].set /\ n \notin DOMAIN shared_data
    /\ \E n \in Names : n /= last.name /\ lastset[n].set /\ lastset[n].ptr /= last.ret

\* ------------------------------------------------------- properties of the accessors
\* every count is made up of the references the caller, the owner and the error
\* indicator hold plus those of the Owning References alive
Accounted == \A o \in Obj : refcnt[o] = held[o] + Cardinality(Holders(o))

StealingPolicies == {"list_item", "tuple_item"}

\* C19 as stated: a successful list or tuple set leaves the count of the value
\* exactly one higher than it was.
C19_StepAsStated ==
    (last'.op = "set" /\ ~last'.threw /\ last'.policy \in StealingPolicies) =>
        refcnt'[last'.val] = refcnt[last'.val] + 1

C19_AsStated == [][C19_StepAsStated]_vars

C19_Step ==
    /\ (last'.op = "set" /\ ~last'.threw /\ last'.policy \in StealingPolicies) =>
          /\ last'.winc = 1
          /\ items'[last'.key] = last'.val
          /\ refcnt'[last'.val] =
                refcnt[last'.val] + 1 - (IF items[last'.key] = last'.val THEN 1 ELSE 0)
          /\ Accounted'
          /\ ~fault'
    /\ (last'.op = "set" /\ last'.policy = "sequence_item") =>
          /\ last'.winc = 0
          /\ Accounted'
          /\ ~last'.threw => items'[last'.key] = last'.val

\* C19: a successful list or tuple set makes exactly one inc_ref() of its own,
\* which the runtime call takes over: the owner then holds the value with a
\* reference of its own next to the caller's, and the count of the value is one
\* higher than before, less the reference the owner gave up if the entry already
\* held that same value.  The sequence set makes no inc_ref() of its own.
C19_SetCounts == [][C19_Step]_vars

\* a list set stored a value the entry did not hold and its count went up by one
C19_Witness ==
    /\ last.op = "set" /\ last.policy = "list_item" /\ ~last.threw
    /\ last.old /= last.val
    /\ items[last.key] = last.val
    /\ refcnt[last.val] = before[last.val] + 1

C20_Step ==
    /\ (last'.op \in {"get", "set"} /\ last'.threw) =>
          /\ last'.raised /= NoErr
          /\ Stored' = last'.raised
          /\ err' = NoErr
          /\ "result" \notin live' /\ m_ptr'["result"] = Null
          /\ items' = items
          /\ Accounted'
          /\ ~fault'
    /\ (last'.op = "get" /\ ~last'.threw) =>
          /\ "result" \in live'
          /\ m_ptr'["result"] = items[last'.key] /\ m_ptr'["result"] /= Null
          /\ refcnt' = [refcnt EXCEPT ![items[last'.key]] = @ + 1]
          /\ err' = NoErr
          /\ Accounted'
    /\ (last.op = "get" /\ ~last.threw /\ last'.op = "drop") =>
          /\ refcnt' = before
          /\ ~fault'
          /\ Accounted'

\* C20: with every accessor policy, a get or set whose runtime call fails throws an
\* error_already_set that holds the error the runtime raised, returns nothing and
\* leaves the error indicator clear; a get that succeeds returns an Owning
\* Reference to the element, and destroying it puts the element's count back to
\* what it was before the get.
C20_Accessors == [][C20_Step]_vars

\* a tuple set failed: the value thrown holds the error and the indicator is clear
C20_Witness ==
    /\ last.op = "set" /\ last.policy = "tuple_item" /\ last.threw
    /\ Stored = last.raised /\ last.raised /= NoErr
    /\ err = NoErr
    /\ refcnt[last.val] = before[last.val] + InErr(last.raised, last.val)

\* ------------------------------------------------------- properties of the builtins
\* C24: getattr(obj, name, default_) never leaves by an exception.  When the lookup
\* succeeds it returns an Owning Reference to the attribute; when the lookup fails,
\* whatever the error, it returns an Owning Reference to default_, whose count is
\* one higher than before (no other count changes), and the error indicator is
\* clear.
C24_Step ==
    (last'.op = "getattr_default") =>
        /\ ~last'.threw /\ ~last'.fail
        /\ err' = NoErr
        /\ "result" \in live'
        /\ Accounted' /\ ~fault'
        /\ last'.raised = NoErr =>
              /\ m_ptr'["result"] = items[last'.key]
              /\ refcnt' = [refcnt EXCEPT ![items[last'.key]] = @ + 1]
        /\ last'.raised /= NoErr =>
              /\ m_ptr'["result"] = last'.val
              /\ \A o \in Obj :
                    refcnt'[o] = refcnt[o] + (IF o = last'.val THEN 1 ELSE 0)
C24_GetattrDefault == [][C24_Step]_vars
\* a lookup failed with an error that names the default: the default is returned
C24_Witness ==
    /\ last.op = "getattr_default" /\ last.raised /= NoErr
    /\ last.val /= Null /\ last.raised.value = last.val
    /\ m_ptr["result"] = last.val
    /\ refcnt[last.val] = before[last.val] + 1
    /\ err = NoErr

\* C25: no constructor of str, bytes, int_, float_, weakref, slice, capsule, tuple,
\* dict, list, set or memoryview returns normally with an Owning Reference that
\* holds null: when the allocation returns null the constructor leaves by
\* pybind11_fail.
C25_Step ==
    (last'.op = "construct") =>
        /\ last'.raised /= NoErr => last'.fail
        /\ ~last'.fail => m_ptr'["result"] /= Null
C25_NoNullAfterCtor == [][C25_Step]_vars

ClearingCalls == {"len_hint", "PyIterable_Check"}

\* the operation met a failing runtime call and ended with the error neither
\* thrown nor pending
Swallowed == last.raised /= NoErr /\ ~last.threw /\ err = NoErr

\* C26 as stated: only getattr with a default swallows the error of a failing
\* runtime call (the end of an iteration is no failing call: PyIter_Next returns
\* NULL without an error).
C26_StepAsStated == Swallowed' => last'.op = "getattr_default"
C26_AsStated == [][C26_StepAsStated]_vars

C26_Step ==
    /\ Swallowed' =>
          \/ last'.op = "getattr_default"
          \/ last'.op = "builtin" /\ last'.policy \in ClearingCalls
    /\ (last'.raised /= NoErr /\ ~Swallowed') =>
          \/ last'.threw /\ Stored' = last'.raised
          \/ ~last'.threw /\ err' = last'.raised

\* C26: the operations that clear the error of a failing runtime call without
\* raising it are getattr with a default, len_hint and PyIterable_Check; every
\* other operation that meets a failing runtime call ends with the error thrown
\* as an error_already_set or still pending in the indicator.
C26_OnlyTheseSwallow == [][C26_Step]_vars
\* len_hint met a failing length call, returned 0 and left the indicator clear
C26_Witness ==
    /\ last.op = "builtin" /\ last.policy = "len_hint"
    /\ last.raised /= NoErr /\ ~last.threw /\ ~last.fail
    /\ last.ret = 0 /\ err = NoErr

\* ------------------------------------------------------- properties of the iterator
\* `it == iterator::sentinel()` evaluated in the current state
EqualsSentinel ==
    LET r == iterator_eq(ICur, TheIterator, sentinel, AnError)
    IN  r.ret /\ ~r.st.threw

\* C21: advancing an iterator whose underlying iterator has no element left (and
\* ends without an error) does not raise and leaves the cached value empty, so
\* that the iterator compares equal to sentinel(); this holds for the advance
\* that passes the last element and for every advance after it.
C21_Step ==
    /\ (last'.op = "advance" /\ rest = <<>> /\ ~bad) =>
          (~last'.threw /\ m_ptr'["value"] = Null /\ EqualsSentinel')
    /\ (last'.op = "eq" /\ rest = <<>> /\ ~bad /\ m_ptr["value"] = Null) =>
          (~last'.threw /\ last'.eq)
C21_Exhaustion == [][C21_Step]_vars
\* an exhausted iterator over a non-empty source was advanced once more
C21_Witness ==
    /\ last.op = "advance" /\ ~last.threw /\ last.n = 1
    /\ src0 /= <<>> /\ calls >= Len(src0) + 2
    /\ m_ptr["value"] = Null

\* C22: when the underlying iterator's next step ends with a runtime error,
\* advance() leaves by throwing error_already_set; the thrown value carries the
\* error and the runtime's indicator is clear afterwards.
C22_Step ==
    (last'.op = "advance" /\ rest = <<>> /\ bad) =>
        /\ last'.threw
        /\ err' = NoErr
        /\ m_ptr'["m_type"] = last'.raised.type
        /\ m_ptr'["m_value"] = last'.raised.value
        /\ last'.raised.type /= Null
C22_AdvanceRaises == [][C22_Step]_vars
C22_Witness ==
    /\ last.op = "advance" /\ last.threw /\ last.raised.value /= Null
    /\ src0 /= <<>> /\ err = NoErr

\* C23: operator* on an iterator that was never advanced calls PyIter_Next exactly
\* once; while the cached value is not empty, operator* and operator== call it
\* not at all, consume nothing, change no count and return the cached element.
C23_Step ==
    /\ (last'.op = "deref" /\ calls = 0) => last'.n = 1
    /\ (last'.op \in {"deref", "eq"} /\ m_ptr["value"] /= Null) =>
          /\ last'.n = 0
          /\ rest' = rest
          /\ refcnt' = refcnt
          /\ m_ptr'["value"] = m_ptr["value"]
          /\ last'.ret = m_ptr["value"]
          /\ ~last'.threw
C23_CachedDeref == [][C23_Step]_vars
\* the first element was fetched once and a later operator* returned it again
C23_Witness ==
    /\ last.op = "deref" /\ last.n = 0 /\ calls = 1
    /\ Len(src0) > 1 /\ last.ret = src0[1] /\ nops >= 3

\* C29: on a fresh iterator over a finite source that raises no error, the loop
\* `while (it != sentinel()) { use *it; ++it; }` ends, and when it has ended it
\* has used the elements of the source, each once, in the source's order.
C29_Loop == [](lpc = "done" => used = src0) /\ <>(lpc = "done")
C29_Witness == lpc = "done" /\ Len(src0) = MaxLen /\ used = src0 /\ src0[1] /= src0[2]

\* ------------------------------------------------------- properties of the options
\* what each setter does to which flag
SetterFlag(f) ==
    IF f \in {"disable_user_defined_docstrings", "enable_user_defined_docstrings"}
    THEN "show_user_defined_docstrings" ELSE "show_function_signatures"
SetterValue(f) == f \in {"enable_user_defined_docstrings", "enable_function_signatures"}

\* C28: constructing an `options` value leaves the settings unchanged; a setter
\* changes its own flag and no other; a getter returns the flag's current value and
\* changes nothing; destroying an `options` value puts back the settings that were
\* in effect when it was constructed, so that after the end of the innermost of
\* nested scopes the settings are those in effect when that scope began and the
\* outer scopes are as they were.
C28_Step ==
    /\ last'.op = "ctor" =>
          /\ global_state' = global_state
          /\ Len(scopes') = Len(scopes) + 1
          /\ SubSeq(scopes', 1, Len(scopes)) = scopes
    /\ last'.op = "set" =>
          /\ global_state'[SetterFlag(last'.f)] = SetterValue(last'.f)
          /\ \A g \in Flags \ {SetterFlag(last'.f)} : global_state'[g] = global_state[g]
          /\ scopes' = scopes
    /\ last'.op = "get" =>
          /\ last'.ret = global_state[last'.f]
          /\ UNCHANGED <<global_state, scopes>>
    /\ last'.op = "dtor" =>
          /\ global_state' = scopes[last'.i].seen
          /\ last'.i = Len(scopes) => scopes' = SubSeq(scopes, 1, Len(scopes) - 1)
C28_Options == [][C28_Step]_vars
\* the inner of two nested scopes ended: the settings it had changed are back to
\* what they were when it began, which is not what the outer scope began with
C28_Witness ==
    /\ last.op = "dtor" /\ last.i = 2
    /\ Len(scopes) = 1
    /\ global_state /= scopes[1].seen
    /\ global_state /= [f \in Flags |-> TRUE]

\* ------------------------------------------------------- properties of the embedded interpreter
\* C27: initialize_interpreter called while the interpreter is running leaves by
\* pybind11_fail without a second Py_InitializeEx and without a change of the
\* interpreter or of the registry; called while no interpreter is running (at the
\* start, or after finalize_interpreter, in every cycle) it starts one.
C27_Step ==
    /\ (last'.op = "initialize" /\ running) =>
          /\ last'.path = "fail"
          /\ running' /\ run' = run
          /\ UNCHANGED <<internals_pp, internals_ptr, builtins, translators, reglog,
                         born, deletes, allocated, finalizing, gil, pc, first>>
    /\ (last'.op = "initialize" /\ ~running) =>
          /\ last'.path = "none"
          /\ running' /\ run' = run + 1
          /\ builtins' = Absent
C27_Initialize == [][C27_Step]_vars
\* the interpreter was started, finalized and started again, with a registry
\* published; a further initialize_interpreter then failed
C27_Witness ==
    /\ last.op = "initialize" /\ last.path = "fail"
    /\ running /\ run = MaxRuns
    /\ builtins.kind = "capsule"

\* ------------------------------------------------------- properties of the mapping traversal
Traversed == last.op /= "init" /\ AtEnd

\* C30: the traversal of an unmodified mapping from begin() reaches end(); when it
\* has, it has yielded every entry of the mapping exactly once (in table order);
\* on an empty mapping begin() already equals end(); and once the position equals
\* end() every further increment leaves it equal to end().
C30_Traversal ==
    /\ [](Traversed => yielded = Entries(table))
    /\ []((last.op = "begin" /\ Entries(table) = <<>>) => AtEnd)
    /\ [][Traversed => Traversed']_vars
    /\ <>Traversed
\* two entries were yielded, the end was reached and one more increment was made
C30_Witness ==
    /\ Traversed /\ last.op = "inc"
    /\ Len(yielded) = 2 /\ yielded = Entries(table)
    /\ table[1] = Unused
    /\ dict_it.key /= Null

\* ------------------------------------------------------- properties of a failed creation
\* the registry r has the built-in translator in its chain and the builtin
\* namespace holds a capsule that leads to it
FullySetUp(r) ==
    /\ r /= Null
    /\ \E i \in 1..Len(translators[r]) : translators[r][i].fn = "translate_exception"
    /\ builtins.kind = "capsule"
    /\ internals_ptr[builtins.pp] = r

\* C32: whenever get_internals returns normally, after whatever calls succeeded or
\* failed before, the registry it returns is fully set up; in particular a call
\* after a creation that failed at the per-thread key does not return the
\* instance the failed attempt left behind.
C32_ReturnsFullySetUp ==
    (last.op = "get_internals" /\ last.path /= "fail") => FullySetUp(last.ret)

\* ------------------------------------------------------- properties of scoped_interpreter
\* C31: whatever guards are constructed, move-constructed (also from a guard that
\* was moved from before) and destroyed, finalize_interpreter is called once for
\* each initialize_interpreter that started an interpreter and never without an
\* interpreter running: a guard that was moved from does not finalize, and the
\* interpreter is not finalized twice.
C31_Step ==
    /\ (last'.op = "dtor" /\ last'.finalized) => running
    /\ (last'.op = "dtor" /\ ~guards[last'.g].is_valid) => ~last'.finalized
    /\ finals' = (IF running' THEN run' - 1 ELSE run')
C31_FinalizeOncePerInit == [][C31_Step]_vars

====
